---- MODULE Spec2Model ----
(***************************************************************************)
(* Backup / restore engine of the shop directory (server/backup.ts) with   *)
(* its collaborators: the record store (server/storage.ts) and the object  *)
(* store service (server/objectStorage.ts).                                *)
(*                                                                         *)
(* JavaScript strings that the code inspects (prefix / substring tests)    *)
(* are sequences of one-character strings.  Identifiers and file-name      *)
(* stems that the code only copies and compares are atomic strings.        *)
(* A path is the sequence of its segments.                                 *)
(***************************************************************************)
EXTENDS Integers, Sequences, FiniteSets, TLC

\* ------------------------------------------------------------------ bounds
MaxShops == 2

\* ----------------------------------------------------------- JS strings
EmptyStr == << >>

StartsWith(s, p) ==
  /\ Len(s) >= Len(p)
  /\ SubSeq(s, 1, Len(p)) = p

Includes(s, sub) ==
  \E i \in 1..(Len(s) - Len(sub) + 1) : SubSeq(s, i, i + Len(sub) - 1) = sub

\* truthiness of a JS string value
Truthy(s) == s # EmptyStr

ObjectsPrefix == <<"/", "o", "b", "j", "e", "c", "t", "s", "/">>
SlashPrefix   == <<"/">>
HttpPrefix    == <<"h", "t", "t", "p">>
FaStore       == <<"f", "a", "-", "s", "t", "o", "r", "e">>

ExtJpg  == <<".", "j", "p", "g">>
ExtPng  == <<".", "p", "n", "g">>
ExtGif  == <<".", "g", "i", "f">>
ExtWebp == <<".", "w", "e", "b", "p">>

Png  == <<"p", "n", "g">>
Gif  == <<"g", "i", "f">>
Webp == <<"w", "e", "b", "p">>

\* content types a fetch response can carry (NoHeader: header absent)
NoHeader == <<"#", "n", "o", "n", "e">>
CtPng    == <<"i", "m", "a", "g", "e", "/", "p", "n", "g">>
CtJpeg   == <<"i", "m", "a", "g", "e", "/", "j", "p", "e", "g">>
ContentTypes == {NoHeader, CtPng, CtJpeg}

\* contentType?.includes(x)
CtIncludes(ct, x) == ct # NoHeader /\ Includes(ct, x)

ToLowerCase(s) ==
  LET ToLowerChar(c) ==
        CASE c = "P" -> "p" [] c = "N" -> "n" [] c = "G" -> "g" [] OTHER -> c
  IN [i \in 1..Len(s) |-> ToLowerChar(s[i])]

\* index of the last occurrence of character c in s, 0 when absent
LastIndexOf(s, c) ==
  LET hits == {i \in 1..Len(s) : s[i] = c}
  IN IF hits = {} THEN 0 ELSE CHOOSE i \in hits : \A j \in hits : j <= i

\* path.extname: from the last "." of the last path segment, "" when the
\* segment has no "." or only a leading one
ExtName(s) ==
  LET slash == LastIndexOf(s, "/")
      dot   == LastIndexOf(s, ".")
  IN IF dot > slash + 1 THEN SubSeq(s, dot, Len(s)) ELSE EmptyStr

\* the string starts with a URL scheme: a letter, then letters, digits, "+",
\* "-" or ".", then ":"; fetch(s) raises a TypeError for any other string
BeginsWithScheme(s) ==
  LET letters == {"a", "b", "c", "d", "e", "f", "g", "h", "i", "j", "k", "l", "m",
                  "n", "o", "p", "q", "r", "s", "t", "u", "v", "w", "x", "y", "z"}
      others  == {"0", "1", "2", "3", "4", "5", "6", "7", "8", "9", "+", "-", "."}
  IN \E i \in 2..Len(s) :
       /\ s[i] = ":"
       /\ s[1] \in letters
       /\ \A j \in 2..(i - 1) : s[j] \in letters \cup others

\* ------------------------------------------------------------ references
RefStored   == ObjectsPrefix \o <<"b", ".", "g", "i", "f">>
RefExternal == HttpPrefix \o <<":", "/", "/", "e">>
RefLocal    == <<"/", "l", ".", "P", "N", "G">>
RefIcon     == <<"f", "a", "s", " ", "f", "a">>
RefData     == <<"d", "a", "t", "a", ":", "x">>
RefHttpish  == HttpPrefix \o <<"x">>

\* ---------------------------------------------------------------- records
ShopA == [id |-> "s1", name |-> "A", logo |-> RefStored, mapImageUrl |-> RefExternal]
ShopB == [id |-> "s2", name |-> "B", logo |-> FaStore,   mapImageUrl |-> EmptyStr]
ShopC == [id |-> "s3", name |-> "C", logo |-> RefLocal,  mapImageUrl |-> RefIcon]

ShopPool == <<ShopA, ShopB, ShopC>>

\* the record sets the store can hold: up to MaxShops rows of the pool, in
\* the order of the pool (ids are a primary key, so no row repeats)
RecordSets ==
  {s \in UNION {[1..n -> 1..Len(ShopPool)] : n \in 0..MaxShops} :
     \A i, j \in 1..Len(s) : i < j => s[i] < s[j]}

RecordsOf(s) == [i \in 1..Len(s) |-> ShopPool[s[i]]]

\* identities the record store generates for new rows (gen_random_uuid)
NewIds == <<"n1", "n2", "n3", "n4", "n5", "n6">>


\* ------------------------------------------------------------ file system
\* A path is a sequence of segments, a segment a sequence of string pieces.
\* The file system maps each existing path to its node.
Seg(name) == <<name>>

DirNode == [kind |-> "dir"]
FileNode(data) == [kind |-> "file", data |-> data]

Exists(f, p) == p \in DOMAIN f
IsDir(f, p)  == p \in DOMAIN f /\ f[p].kind = "dir"
IsFile(f, p) == p \in DOMAIN f /\ f[p].kind = "file"

IsPrefix(p, q) == Len(p) <= Len(q) /\ SubSeq(q, 1, Len(p)) = p

\* path.join(base, rel): empty segments (a trailing "/") are dropped
RECURSIVE PathJoin(_, _)
PathJoin(base, rel) ==
  IF rel = << >> THEN base
  ELSE PathJoin(IF Head(rel) = EmptyStr THEN base ELSE Append(base, Head(rel)),
                Tail(rel))

\* path.dirname
DirName(p) == SubSeq(p, 1, Len(p) - 1)

\* a mkdir whose completion is not awaited: nothing is there yet when the
\* caller goes on
MkdirUnawaited(f, p) == f

\* mkdir(p, { recursive: true }): p and every missing ancestor
Mkdir(f, p) ==
  [q \in {SubSeq(p, 1, n) : n \in 1..Len(p)} \ DOMAIN f |-> DirNode] @@ f

\* writeFile / createWriteStream: creates or replaces the file at p
WriteFile(f, p, data) == (p :> FileNode(data)) @@ f

\* readdir(d): the names directly inside d
Readdir(f, d) == {p[Len(p)] : p \in {q \in DOMAIN f : Len(q) = Len(d) + 1 /\ IsPrefix(d, q)}}

\* unlink / rmdir of one path
Remove(f, p) == [q \in DOMAIN f \ {p} |-> f[q]]

\* directoryExists: stat succeeds and reports a directory
directoryExists(f, p) == IsDir(f, p)

\* cleanupDirectory without the final rmdir of an emptied directory
RECURSIVE cleanupDirectoryLeaky(_, _)
cleanupDirectoryLeaky(f, dirPath) ==
  IF ~directoryExists(f, dirPath) THEN f
  ELSE LET files == Readdir(f, dirPath)
       IN IF files = {} THEN f
          ELSE LET file == CHOOSE x \in files : TRUE
                   filePath == Append(dirPath, file)
               IN cleanupDirectoryLeaky(
                    IF IsDir(f, filePath)
                    THEN cleanupDirectoryLeaky(f, filePath)
                    ELSE Remove(f, filePath),
                    dirPath)

\* cleanupDirectory: entries are removed one by one (directories
\* recursively), then the emptied directory itself
RECURSIVE cleanupDirectory(_, _)
cleanupDirectory(f, dirPath) ==
  IF ~directoryExists(f, dirPath) THEN f
  ELSE LET files == Readdir(f, dirPath)
       IN IF files = {} THEN Remove(f, dirPath)
          ELSE LET file == CHOOSE x \in files : TRUE
                   filePath == Append(dirPath, file)
               IN cleanupDirectory(
                    IF IsDir(f, filePath)
                    THEN cleanupDirectory(f, filePath)
                    ELSE Remove(f, filePath),
                    dirPath)

\* cleanupFile that leaves the file in place
cleanupFileKeep(f, filePath) == f

\* cleanupFile: unlink, a missing file is only logged
cleanupFile(f, filePath) ==
  IF Exists(f, filePath) THEN Remove(f, filePath) ELSE f

TmpDir == <<Seg("tmp")>>
BackupTimestamp == "T1"
RestoreNow == "T2"
UploadsDir == Append(TmpDir, Seg("uploads"))

\* ------------------------------------------------------------ asset fetch
\* what the asset source answers to one fetch or local read
FetchOutcomes ==
  {[status |-> "ok", ct |-> c] : c \in ContentTypes}
    \cup {[status |-> "notok", ct |-> NoHeader], [status |-> "throw", ct |-> NoHeader]}

NoFetch == [status |-> "unused", ct |-> NoHeader]

\* extension from the response content type, else from the reference
SniffExtension(ct, imageUrl) ==
  IF CtIncludes(ct, Png) THEN ExtPng
  ELSE IF CtIncludes(ct, Gif) THEN ExtGif
  ELSE IF CtIncludes(ct, Webp) THEN ExtWebp
  ELSE IF Includes(imageUrl, ExtPng) THEN ExtPng
  ELSE IF Includes(imageUrl, ExtGif) THEN ExtGif
  ELSE IF Includes(imageUrl, ExtWebp) THEN ExtWebp
  ELSE ExtJpg

\* a dispatch that takes every other string for a local file name
RefSourceGreedy(imageUrl) ==
  IF StartsWith(imageUrl, ObjectsPrefix) THEN "store"
  ELSE IF StartsWith(imageUrl, HttpPrefix) THEN "http"
  ELSE "disk"

\* which source downloadImage reads for a reference
RefSource(imageUrl) ==
  IF StartsWith(imageUrl, ObjectsPrefix) THEN "store"
  ELSE IF StartsWith(imageUrl, SlashPrefix) THEN "disk"
  ELSE IF StartsWith(imageUrl, HttpPrefix) THEN "http"
  ELSE "none"

\* null result of downloadImage
NoFile == EmptyStr

\* downloadImage that returns the file name even when nothing was fetched
downloadImageNamed(f, imageUrl, destinationDir, filename, o) ==
  LET finalFilename == filename \o SniffExtension(o.ct, imageUrl)
  IN IF RefSource(imageUrl) = "none" \/ o.status # "ok"
     THEN [fs |-> f, name |-> finalFilename]
     ELSE [fs |-> WriteFile(f, Append(destinationDir, finalFilename),
                            [type |-> "bytes", of |-> imageUrl]),
           name |-> finalFilename]

\* downloadImage(imageUrl, destinationDir, filename) under answer o:
\* the file system afterwards and the file name written (NoFile for null)
downloadImage(f, imageUrl, destinationDir, filename, o) ==
  LET src == RefSource(imageUrl)
      ext == IF src = "disk"
             THEN (IF ExtName(imageUrl) # EmptyStr
                   THEN ToLowerCase(ExtName(imageUrl)) ELSE ExtJpg)
             ELSE SniffExtension(o.ct, imageUrl)
      finalFilename == filename \o ext
  IN IF src = "none" \/ o.status # "ok"
     THEN [fs |-> f, name |-> NoFile]
     ELSE [fs |-> WriteFile(f, Append(destinationDir, finalFilename),
                            [type |-> "bytes", of |-> imageUrl]),
           name |-> finalFilename]


\* ------------------------------------------------------------------ state
VARIABLES
  db,            \* record store: the rows of the shops table, in insertion order
  nextId,        \* index into NewIds of the next generated identity
  fs,            \* server file system
  fetchLog,      \* asset reads issued by downloadImage, with their outcome
  bpc,           \* createFullBackup: position
  bShops,        \* createFullBackup: shops
  bIdx,          \* createFullBackup: index of the record being processed
  backupData,    \* createFullBackup: backupData
  resp,          \* createFullBackup: the HTTP response
  archive,       \* the archive the client received
  tamper,        \* what the client does to the archive before uploading it
  req,           \* the restore request as the upload middleware received it
  rpc,           \* restoreFromZip: position
  zip,           \* entries of the uploaded archive file
  eIdx,          \* extractZipFile: index of the entry being read
  rData,         \* restoreFromZip: backupData
  uQueue,        \* uploadImagesFromBackup: files of the directory being uploaded
  imageResults,  \* uploadImagesFromBackup: result
  storeLog,      \* requests issued to the object store during the restore
  iIdx,          \* restoreShopsToDatabase: index of the record being inserted
  restoredCount, \* restoreShopsToDatabase: restoredCount
  insertLog,     \* records handed to storage.createShop: <<record, outcome>>
  thrown,        \* error caught by restoreFromZip's catch
  result,        \* restoreFromZip: result
  dataResp,      \* createDataBackup: the HTTP response
  statsResp,     \* getBackupStats: the value returned
  clock,         \* the server clock, in milliseconds
  calls,         \* invocations running side by side: position, scratch directory
  runs,          \* restores that have returned before the current one
  users,         \* record store: the rows of the users table
  areq           \* account requests being served: position, session, locals

vars == <<db, nextId, fs, fetchLog, bpc, bShops, bIdx, backupData, resp, archive,
          tamper, req, rpc, zip, eIdx, rData, uQueue, imageResults, storeLog, iIdx,
          restoredCount, insertLog, thrown, result, dataResp, statsResp, clock,
          calls, runs, users, areq>>

backupVars  == <<bpc, bShops, bIdx, backupData, resp, archive, fetchLog>>
restoreVars == <<rpc, zip, eIdx, rData, uQueue, imageResults, storeLog, iIdx,
                 restoredCount, insertLog, thrown, result>>
serviceVars == <<dataResp, statsResp, clock, calls, runs, users, areq>>

backupDir  == Append(TmpDir, <<"backup-", BackupTimestamp>>)
extractDir == Append(TmpDir, <<"restore-", RestoreNow>>)
zipFilePath == Append(UploadsDir, Seg("upload-1"))

ManifestName == Seg("backup-data.json")
ReadmeName   == Seg("README.md")
ImagesSeg == Seg("images")
LogosSeg  == Seg("logos")
MapsSeg   == Seg("maps")

NoData == [type |-> "none"]

EmptyMap == [x \in {} |-> EmptyStr]

\* ------------------------------------------------------- createFullBackup
\* answers the asset source can give for a reference
OutcomesFor(imageUrl) ==
  CASE RefSource(imageUrl) = "none" -> {NoFetch}
    [] RefSource(imageUrl) = "disk" ->
         {[status |-> "ok", ct |-> NoHeader], [status |-> "throw", ct |-> NoHeader]}
    [] RefSource(imageUrl) = "http" /\ ~BeginsWithScheme(imageUrl) ->
         {[status |-> "throw", ct |-> NoHeader]}
    [] OTHER -> FetchOutcomes

\* downloadImage issues a read for the reference: a request to the store's
\* serving path, a readFile, or a GET when fetch accepts the string as a URL
IssuesRead(imageUrl) ==
  \/ RefSource(imageUrl) \in {"store", "disk"}
  \/ RefSource(imageUrl) = "http" /\ BeginsWithScheme(imageUrl)

\* one asset read as the log keeps it
FetchEntry(shop, slot, imageUrl, o) ==
  [id |-> shop.id, slot |-> slot, ref |-> imageUrl, source |-> RefSource(imageUrl),
   ok |-> (o.status = "ok"), ct |-> o.ct]

LogosDirOf(dir) == Append(Append(dir, ImagesSeg), LogosSeg)
MapsDirOf(dir)  == Append(Append(dir, ImagesSeg), MapsSeg)

\* an index path for a logo that leaves out the logos directory
LogoArchivePathFlat(name) == <<ImagesSeg, name>>

\* `images/logos/${name}` and `images/maps/${name}`
LogoArchivePath(name) == <<ImagesSeg, LogosSeg, name>>
MapArchivePath(name)  == <<ImagesSeg, MapsSeg, name>>

\* shop.logo && shop.logo !== 'fa-store'
HasLogoAsset(shop) == Truthy(shop.logo) /\ shop.logo # FaStore
\* shop.mapImageUrl
HasMapAsset(shop) == Truthy(shop.mapImageUrl)

InitialBackupData(shops) ==
  [metadata |-> [version |-> "1.0", totalShops |-> Len(shops), backupType |-> "full"],
   shops |-> shops,
   images |-> [logos |-> EmptyMap, maps |-> EmptyMap]]

\* the response after the catch of lines 156-160 has answered: sink lists, in
\* order, who wrote a piece of the body
ErrorResponse ==
  [headersSent |-> TRUE, status |-> 500, body |-> "error", lateWrites |-> 0,
   sink |-> <<"catch">>]

\* lines 72-94, and the catch of lines 156-160
BackupStart ==
  /\ bpc = "idle"
  /\ \E o \in {"ok", "throw"} :
       IF o = "throw"
       THEN /\ resp' = ErrorResponse
            /\ bpc' = "done"
            /\ UNCHANGED <<fs, bShops, bIdx, backupData>>
       ELSE /\ bShops' = db
            /\ fs' = Mkdir(Mkdir(fs, LogosDirOf(backupDir)), MapsDirOf(backupDir))
            /\ backupData' = InitialBackupData(db)
            /\ bIdx' = 1
            /\ bpc' = "shops"
            /\ UNCHANGED resp
  /\ UNCHANGED <<db, nextId, fetchLog, archive, tamper, req>>
  /\ UNCHANGED restoreVars
  /\ UNCHANGED serviceVars

\* one iteration of the loop of lines 97-126
BackupShop ==
  /\ bpc = "shops"
  /\ bIdx <= Len(bShops)
  /\ LET shop == bShops[bIdx]
     IN \E o1 \in (IF HasLogoAsset(shop) THEN OutcomesFor(shop.logo) ELSE {NoFetch}),
           o2 \in (IF HasMapAsset(shop) THEN OutcomesFor(shop.mapImageUrl) ELSE {NoFetch}) :
          LET r1 == IF HasLogoAsset(shop)
                    THEN downloadImage(fs, shop.logo, LogosDirOf(backupDir),
                                       <<shop.id, "_logo">>, o1)
                    ELSE [fs |-> fs, name |-> NoFile]
              r2 == IF HasMapAsset(shop)
                    THEN downloadImage(r1.fs, shop.mapImageUrl, MapsDirOf(backupDir),
                                       <<shop.id, "_map">>, o2)
                    ELSE [fs |-> r1.fs, name |-> NoFile]
              logos1 == IF r1.name # NoFile
                        THEN (shop.id :> LogoArchivePath(r1.name)) @@ backupData.images.logos
                        ELSE backupData.images.logos
              maps1  == IF r2.name # NoFile
                        THEN (shop.id :> MapArchivePath(r2.name)) @@ backupData.images.maps
                        ELSE backupData.images.maps
              log1 == IF HasLogoAsset(shop) /\ IssuesRead(shop.logo)
                      THEN Append(fetchLog, FetchEntry(shop, "logo", shop.logo, o1))
                      ELSE fetchLog
              log2 == IF HasMapAsset(shop) /\ IssuesRead(shop.mapImageUrl)
                      THEN Append(log1, FetchEntry(shop, "map", shop.mapImageUrl, o2))
                      ELSE log1
          IN /\ fs' = r2.fs
             /\ backupData' = [backupData EXCEPT !.images = [logos |-> logos1, maps |-> maps1]]
             /\ fetchLog' = log2
  /\ bIdx' = bIdx + 1
  /\ UNCHANGED <<db, nextId, bpc, bShops, resp, archive, tamper, req>>
  /\ UNCHANGED restoreVars
  /\ UNCHANGED serviceVars

\* JSON.stringify of the manifest
Stringify(value) == [type |-> "json", value |-> value]

\* a build that goes on to the archive without waiting for the manifest and
\* the README to be written
BackupWriteSkipped ==
  /\ bpc = "shops"
  /\ bIdx > Len(bShops)
  /\ bpc' = "zip"
  /\ UNCHANGED <<db, nextId, fs, fetchLog, bShops, bIdx, backupData, resp, archive,
                 tamper, req>>
  /\ UNCHANGED restoreVars
  /\ UNCHANGED serviceVars

\* lines 128-151
BackupWrite ==
  /\ bpc = "shops"
  /\ bIdx > Len(bShops)
  /\ \E o \in {"ok", "throw"} :
       IF o = "throw"
       THEN /\ resp' = ErrorResponse
            /\ bpc' = "done"
            /\ UNCHANGED fs
       ELSE /\ fs' = WriteFile(WriteFile(fs, Append(backupDir, ManifestName),
                                         Stringify(backupData)),
                               Append(backupDir, ReadmeName), [type |-> "text"])
            /\ bpc' = "zip"
            /\ UNCHANGED resp
  /\ UNCHANGED <<db, nextId, fetchLog, bShops, bIdx, backupData, archive, tamper, req>>
  /\ UNCHANGED restoreVars
  /\ UNCHANGED serviceVars

\* a set of paths as a sequence
RECURSIVE SetToSeq(_)
SetToSeq(S) ==
  IF S = {} THEN << >>
  ELSE LET x == CHOOSE y \in S : TRUE IN <<x>> \o SetToSeq(S \ {x})

\* archive.directory(sourceDir, false): one entry per directory and file
\* below sourceDir, named relative to it; a directory name ends in "/"
ArchiveDirectory(f, sourceDir) ==
  LET below == {q \in DOMAIN f : Len(q) > Len(sourceDir) /\ IsPrefix(sourceDir, q)}
      Entry(q) ==
        LET rel == SubSeq(q, Len(sourceDir) + 1, Len(q))
        IN IF f[q].kind = "dir"
           THEN [fileName |-> Append(rel, EmptyStr), data |-> NoData]
           ELSE [fileName |-> rel, data |-> f[q].data]
  IN SetToSeq({Entry(q) : q \in below})

\* createZipResponse, lines 280-292: the headers are set, the archive is piped
\* to the response, the staging directory is queued and the archive finalized;
\* nothing has been written yet
BackupZip ==
  /\ bpc = "zip"
  /\ bpc' = "stream"
  /\ UNCHANGED <<db, nextId, fs, fetchLog, bShops, bIdx, backupData, resp, archive,
                 tamper, req>>
  /\ UNCHANGED restoreVars
  /\ UNCHANGED serviceVars

\* the archive's events while it is piped to the response: a first chunk
\* (which sends the headers), 'end' (lines 294-296), or 'error' (lines
\* 298-301) followed by the catch of lines 156-160, whose res.status(500).json
\* raises once the headers are sent, and by the catch of the route
ZipStream ==
  /\ bpc = "stream"
  /\ \E o \in {"data", "end", "error"} :
       CASE o = "data" ->
              /\ ~resp.headersSent
              /\ resp' = [headersSent |-> TRUE, status |-> 200, body |-> "truncated",
                          lateWrites |-> 0, sink |-> <<"archive">>]
              /\ UNCHANGED <<bpc, archive>>
         [] o = "end" ->
              /\ resp.headersSent
              /\ resp' = [resp EXCEPT !.body = "archive", !.sink = Append(@, "archive")]
              /\ archive' = ArchiveDirectory(fs, backupDir)
              /\ bpc' = "done"
         [] o = "error" ->
              /\ resp' = IF resp.headersSent
                         THEN [resp EXCEPT !.lateWrites = @ + 1]
                         ELSE ErrorResponse
              /\ bpc' = "done"
              /\ UNCHANGED archive
  /\ UNCHANGED <<db, nextId, fs, fetchLog, bShops, bIdx, backupData, tamper, req>>
  /\ UNCHANGED restoreVars
  /\ UNCHANGED serviceVars


\* ------------------------------------------------------------ the client
\* what a client can do to a received archive before uploading it
Tampers == {"none", "dropManifest", "garbageManifest", "nullManifest",
            "noShops", "noImages", "noLogosIndex", "dropAssetFiles", "dropIds",
            "dropDirEntries", "filesFirst"}

Without(rec, key) == [k \in DOMAIN rec \ {key} |-> rec[k]]

TamperManifest(t, m) ==
  CASE t = "noShops"      -> Without(m, "shops")
    [] t = "noImages"     -> Without(m, "images")
    [] t = "noLogosIndex" -> [m EXCEPT !.images = Without(m.images, "logos")]
    [] t = "dropIds"      -> [m EXCEPT !.shops = [i \in 1..Len(m.shops) |-> Without(m.shops[i], "id")]]
    [] OTHER              -> m

IsManifestEntry(e) == e.fileName = <<ManifestName>>
IsAssetEntry(e) ==
  /\ Len(e.fileName) = 3
  /\ e.fileName[1] = ImagesSeg
  /\ e.fileName[3] # EmptyStr

Tamper(t, entries) ==
  LET KeepNonManifest(e) == ~IsManifestEntry(e)
      KeepNonAsset(e) == ~IsAssetEntry(e)
      KeepFile(e) == e.fileName[Len(e.fileName)] # EmptyStr
      KeepDir(e) == e.fileName[Len(e.fileName)] = EmptyStr
  IN CASE t = "dropManifest"   -> SelectSeq(entries, KeepNonManifest)
       [] t = "dropAssetFiles" -> SelectSeq(entries, KeepNonAsset)
       [] t = "dropDirEntries" -> SelectSeq(entries, KeepFile)
       [] t = "filesFirst"     -> SelectSeq(entries, KeepFile) \o SelectSeq(entries, KeepDir)
       [] t = "none"           -> entries
       [] OTHER ->
            [i \in 1..Len(entries) |->
               IF ~IsManifestEntry(entries[i]) THEN entries[i]
               ELSE [entries[i] EXCEPT !.data =
                       CASE t = "garbageManifest" -> [type |-> "text"]
                         [] t = "nullManifest"    -> [type |-> "jsonnull"]
                         [] OTHER -> Stringify(TamperManifest(t, entries[i].data.value))]]

\* ---------------------------------------------------- the upload middleware
\* limits.fileSize, in bytes
FileSizeLimit == 100 * 1024 * 1024

\* a file filter that lets every content type through
fileFilterAny(mimetype) == TRUE

\* fileFilter: cb(null, true) for a ZIP content type, cb(new Error) otherwise
fileFilter(mimetype) ==
  mimetype = "application/zip" \/ mimetype = "application/x-zip-compressed"

\* a request without a file part
EmptyRequest == [hasFile |-> FALSE, mimetype |-> "", size |-> 0]

\* the restore requests a client can send: the declared content type of the
\* file part and its size in bytes
Requests ==
  {EmptyRequest,
   [hasFile |-> TRUE, mimetype |-> "application/zip", size |-> 1],
   [hasFile |-> TRUE, mimetype |-> "application/x-zip-compressed", size |-> FileSizeLimit],
   [hasFile |-> TRUE, mimetype |-> "text/plain", size |-> 1],
   [hasFile |-> TRUE, mimetype |-> "application/zip", size |-> FileSizeLimit + 1]}

\* whether the multipart parser lets a file of this size through: a file
\* over the limit is cut off and refused, a file of exactly the limit is let
\* through or refused depending on the parser
SizeVerdicts(size) ==
  IF size < FileSizeLimit THEN {TRUE}
  ELSE IF size > FileSizeLimit THEN {FALSE}
  ELSE BOOLEAN

\* upload.single('backupFile') followed by the check of req.file: the route
\* calls restoreFromZip only when the middleware stored a file
UploadVerdict(r, sizeOk) ==
  IF ~r.hasFile THEN "noFile"
  ELSE IF ~fileFilter(r.mimetype) THEN "filtered"
  ELSE IF ~sizeOk THEN "tooLarge"
  ELSE "accepted"

\* a restore request arrives; the upload middleware stores an accepted
\* archive at zipFilePath and the route enters restoreFromZip
ClientUpload ==
  /\ bpc = "done"
  /\ resp.body = "archive"
  /\ rpc = "idle"
  /\ \E r \in Requests :
       \E sizeOk \in SizeVerdicts(r.size) :
         /\ req' = r
         /\ IF UploadVerdict(r, sizeOk) = "accepted"
            THEN /\ \E t \in Tampers :
                      /\ tamper' = t
                      /\ zip' = Tamper(t, archive)
                 /\ fs' = WriteFile(fs, zipFilePath, [type |-> "zip"])
                 /\ rpc' = "start"
            ELSE /\ rpc' = "rejected"
                 /\ UNCHANGED <<tamper, zip, fs>>
  /\ UNCHANGED <<db, nextId>>
  /\ UNCHANGED backupVars
  /\ UNCHANGED serviceVars
  /\ UNCHANGED <<eIdx, rData, uQueue, imageResults, storeLog, iIdx,
                 restoredCount, insertLog, thrown, result>>

\* --------------------------------------------------------- restoreFromZip
Message(text) == [text |-> text, counts |-> << >>]
NoMessage == Message("")
InvalidBackupMessage ==
  Message("Invalid backup file: backup-data.json not found or corrupted")

ErrorEntry(text, file, detail) == [text |-> text, file |-> file, detail |-> detail]

InitialResult ==
  [success |-> FALSE, message |-> NoMessage,
   stats |-> [shopsRestored |-> 0, logosRestored |-> 0, mapsRestored |-> 0,
              errors |-> << >>]]

\* the message of an error raised while creating the scratch directory or
\* opening the archive
OpenError == Message("cannot open archive")

\* the message of an error raised while reading or writing one entry
EntryError == Message("entry error")

\* an error reaches the catch of restoreFromZip
Throw(message) ==
  /\ thrown' = message
  /\ rpc' = "catch"

\* extractZipFile, lines 395-409: create the scratch directory, open the archive
ExtractOpen ==
  /\ rpc = "start"
  /\ \E o \in {"ok", "mkdirErr", "openErr"} :
       CASE o = "ok" ->
              /\ fs' = Mkdir(fs, extractDir)
              /\ eIdx' = 1
              /\ rpc' = "extract"
              /\ UNCHANGED thrown
         [] o = "mkdirErr" ->
              /\ Throw(OpenError)
              /\ UNCHANGED <<fs, eIdx>>
         [] o = "openErr" ->
              /\ fs' = Mkdir(fs, extractDir)
              /\ Throw(OpenError)
              /\ UNCHANGED eIdx
  /\ UNCHANGED <<db, nextId, tamper, req, zip, rData, uQueue, imageResults, storeLog,
                 iIdx, restoredCount, insertLog, result>>
  /\ UNCHANGED backupVars
  /\ UNCHANGED serviceVars

\* /\/$/.test(entry.fileName)
IsDirectoryEntry(entry) == entry.fileName[Len(entry.fileName)] = EmptyStr

PartialData == [type |-> "partial"]

\* the 'entry' handler, lines 411-444, and the 'error' handler of line 450
ExtractEntry ==
  /\ rpc = "extract"
  /\ eIdx <= Len(zip)
  /\ LET entry == zip[eIdx]
         filePath == PathJoin(extractDir, entry.fileName)
         fileDir == DirName(filePath)
     IN IF IsDirectoryEntry(entry)
        THEN \E o \in {"ok", "mkdirErr", "badEntry"} :
               IF o = "ok"
               THEN /\ fs' = Mkdir(fs, filePath)
                    /\ eIdx' = eIdx + 1
                    /\ UNCHANGED <<rpc, thrown>>
               ELSE /\ Throw(EntryError)
                    /\ UNCHANGED <<fs, eIdx>>
        ELSE \E o \in {"ok", "badEntry", "openErr", "noStream", "mkdirErr",
                       "writeErr", "readErr"} :
               CASE o = "ok" ->
                      /\ fs' = WriteFile(Mkdir(fs, fileDir), filePath, entry.data)
                      /\ eIdx' = eIdx + 1
                      /\ UNCHANGED <<rpc, thrown>>
                 [] o = "noStream" ->
                      /\ eIdx' = eIdx + 1
                      /\ UNCHANGED <<fs, rpc, thrown>>
                 [] o \in {"badEntry", "openErr", "mkdirErr"} ->
                      /\ Throw(EntryError)
                      /\ UNCHANGED <<fs, eIdx>>
                 [] o = "writeErr" ->
                      /\ fs' = WriteFile(Mkdir(fs, fileDir), filePath, PartialData)
                      /\ Throw(EntryError)
                      /\ UNCHANGED eIdx
                 [] o = "readErr" ->
                      \* the read stream has no 'error' listener: the error is
                      \* raised outside the promise, which is never settled
                      /\ fs' = WriteFile(Mkdir(fs, fileDir), filePath, PartialData)
                      /\ rpc' = "crashed"
                      /\ UNCHANGED <<eIdx, thrown>>
  /\ UNCHANGED <<db, nextId, tamper, req, zip, rData, uQueue, imageResults, storeLog,
                 iIdx, restoredCount, insertLog, result>>
  /\ UNCHANGED backupVars
  /\ UNCHANGED serviceVars

\* the 'end' handler, lines 446-448
ExtractEnd ==
  /\ rpc = "extract"
  /\ eIdx > Len(zip)
  /\ rpc' = "parse"
  /\ UNCHANGED <<db, nextId, fs, tamper, req, zip, eIdx, rData, uQueue, imageResults,
                 storeLog, iIdx, restoredCount, insertLog, thrown, result>>
  /\ UNCHANGED backupVars
  /\ UNCHANGED serviceVars

NullData == [isNull |-> TRUE, value |-> << >>]

\* parseBackupData: null when the file cannot be read or is not JSON;
\* otherwise whatever JSON.parse returns, without any check of its shape
parseBackupData(f, jsonFilePath) ==
  IF ~IsFile(f, jsonFilePath) THEN NullData
  ELSE CASE f[jsonFilePath].data.type = "json" ->
              [isNull |-> FALSE, value |-> f[jsonFilePath].data.value]
         [] OTHER -> NullData

\* lines 355-360
ParseManifest ==
  /\ rpc = "parse"
  /\ LET parsed == parseBackupData(fs, Append(extractDir, ManifestName))
     IN IF parsed.isNull
        THEN /\ Throw(InvalidBackupMessage)
             /\ UNCHANGED rData
        ELSE /\ rData' = parsed.value
             /\ rpc' = "listLogos"
             /\ UNCHANGED thrown
  /\ UNCHANGED <<db, nextId, fs, tamper, req, zip, eIdx, uQueue, imageResults, storeLog,
                 iIdx, restoredCount, insertLog, result>>
  /\ UNCHANGED backupVars
  /\ UNCHANGED serviceVars


\* ------------------------------------------------- uploadImagesFromBackup
InitialImageResults ==
  [logosUploaded |-> 0, mapsUploaded |-> 0, imageMapping |-> EmptyMap,
   errors |-> << >>]

\* this.objectStorageService.getObjectEntityUploadURL(): ObjectStorageService
\* declares getUploadURL(type) and no getObjectEntityUploadURL member, so the
\* call raises a TypeError before any request is made
getObjectEntityUploadURL ==
  [threw |-> TRUE, message |-> "getObjectEntityUploadURL is not a function",
   url |-> [pathname |-> << >>]]

UploadsRefPrefix == ObjectsPrefix \o <<"u", "p", "l", "o", "a", "d", "s", "/">>

\* extractObjectPathFromUrl: `/objects/uploads/` + last segment of the URL path
extractObjectPathFromUrl(uploadUrl) ==
  LET pathParts == uploadUrl.pathname
      objectName == SubSeq(pathParts, 3, Len(pathParts))
  IN UploadsRefPrefix \o
       (IF objectName = << >> THEN EmptyStr ELSE objectName[Len(objectName)])

\* one loop iteration that drops the error of a failed upload
uploadOneSilent(res, kind, file, target, put) ==
  IF target.threw \/ put # "ok"
  THEN res
  ELSE LET objectPath == extractObjectPathFromUrl(target.url)
           key == IF kind = "logo" THEN LogoArchivePath(file) ELSE MapArchivePath(file)
       IN [res EXCEPT
             !.imageMapping = (key :> objectPath) @@ @,
             !.logosUploaded = IF kind = "logo" THEN @ + 1 ELSE @,
             !.mapsUploaded  = IF kind = "map"  THEN @ + 1 ELSE @]

\* one iteration of the loops of lines 488-513 (kind "logo") and 520-545
\* (kind "map"): the result after the try / catch around one file
uploadOne(res, kind, file, target, put) ==
  IF target.threw
  THEN [res EXCEPT !.errors =
          Append(@, ErrorEntry(IF kind = "logo" THEN "Error uploading logo"
                               ELSE "Error uploading map", file, target.message))]
  ELSE CASE put = "throw" ->
              [res EXCEPT !.errors =
                 Append(@, ErrorEntry(IF kind = "logo" THEN "Error uploading logo"
                                      ELSE "Error uploading map", file, "fetch failed"))]
         [] put = "notok" ->
              [res EXCEPT !.errors =
                 Append(@, ErrorEntry(IF kind = "logo" THEN "Failed to upload logo"
                                      ELSE "Failed to upload map", file, ""))]
         [] OTHER ->
              LET objectPath == extractObjectPathFromUrl(target.url)
                  key == IF kind = "logo" THEN LogoArchivePath(file)
                         ELSE MapArchivePath(file)
              IN [res EXCEPT
                    !.imageMapping = (key :> objectPath) @@ @,
                    !.logosUploaded = IF kind = "logo" THEN @ + 1 ELSE @,
                    !.mapsUploaded  = IF kind = "map"  THEN @ + 1 ELSE @]

\* a listing that is skipped once an upload has failed
ListFilesAfterFailure(pcNow, dir, pcLoop) ==
  /\ rpc = pcNow
  /\ uQueue' = IF directoryExists(fs, dir) /\ imageResults.errors = << >>
               THEN SetToSeq(Readdir(fs, dir)) ELSE << >>
  /\ rpc' = pcLoop
  /\ UNCHANGED <<db, nextId, fs, tamper, req, zip, eIdx, rData, imageResults, storeLog,
                 iIdx, restoredCount, insertLog, thrown, result>>
  /\ UNCHANGED backupVars
  /\ UNCHANGED serviceVars

\* lines 485-487 and 517-519: list the directory when it exists
ListFiles(pcNow, dir, pcLoop) ==
  /\ rpc = pcNow
  /\ uQueue' = IF directoryExists(fs, dir) THEN SetToSeq(Readdir(fs, dir)) ELSE << >>
  /\ rpc' = pcLoop
  /\ UNCHANGED <<db, nextId, fs, tamper, req, zip, eIdx, rData, imageResults, storeLog,
                 iIdx, restoredCount, insertLog, thrown, result>>
  /\ UNCHANGED backupVars
  /\ UNCHANGED serviceVars

ListLogos == ListFiles("listLogos", LogosDirOf(extractDir), "uploadLogos")
ListMaps  == ListFiles("listMaps", MapsDirOf(extractDir), "uploadMaps")

\* one file of the current directory
UploadFile(pcNow, kind) ==
  /\ rpc = pcNow
  /\ uQueue # << >>
  /\ LET file == Head(uQueue)
         target == getObjectEntityUploadURL
     IN \E put \in (IF target.threw THEN {"unused"} ELSE {"ok", "notok", "throw"}) :
          /\ imageResults' = uploadOne(imageResults, kind, file, target, put)
          /\ storeLog' = IF target.threw
                         THEN Append(storeLog, <<"getObjectEntityUploadURL", kind, file>>)
                         ELSE storeLog \o <<<<"getObjectEntityUploadURL", kind, file>>,
                                            <<"PUT", kind, file>>>>
  /\ uQueue' = Tail(uQueue)
  /\ UNCHANGED <<db, nextId, fs, tamper, req, rpc, zip, eIdx, rData, iIdx, restoredCount,
                 insertLog, thrown, result>>
  /\ UNCHANGED backupVars
  /\ UNCHANGED serviceVars

UploadLogo == UploadFile("uploadLogos", "logo")
UploadMap  == UploadFile("uploadMaps", "map")

\* the logo loop is exhausted
LogosDone ==
  /\ rpc = "uploadLogos"
  /\ uQueue = << >>
  /\ rpc' = "listMaps"
  /\ UNCHANGED <<db, nextId, fs, tamper, req, zip, eIdx, rData, uQueue, imageResults,
                 storeLog, iIdx, restoredCount, insertLog, thrown, result>>
  /\ UNCHANGED backupVars
  /\ UNCHANGED serviceVars

\* the map loop is exhausted: return, then lines 364-366
MapsDone ==
  /\ rpc = "uploadMaps"
  /\ uQueue = << >>
  /\ result' = [result EXCEPT
                  !.stats.logosRestored = imageResults.logosUploaded,
                  !.stats.mapsRestored = imageResults.mapsUploaded,
                  !.stats.errors = @ \o imageResults.errors]
  /\ rpc' = "rewrite"
  /\ UNCHANGED <<db, nextId, fs, tamper, req, zip, eIdx, rData, uQueue, imageResults,
                 storeLog, iIdx, restoredCount, insertLog, thrown>>
  /\ UNCHANGED backupVars
  /\ UNCHANGED serviceVars


\* ----------------------------------------------------- updateShopImageUrls
Has(obj, key) == key \in DOMAIN obj

SetField(obj, key, value) == (key :> value) @@ obj

\* the assignment of one slot that blanks the field when no new reference exists
rewriteSlotBlank(shop, field, index, imageMapping) ==
  IF Has(shop, "id") /\ Has(index, shop.id)
  THEN IF Has(imageMapping, index[shop.id])
       THEN SetField(shop, field, imageMapping[index[shop.id]])
       ELSE SetField(shop, field, EmptyStr)
  ELSE shop

\* lines 557-562 (field "logo") and 565-570 (field "mapImageUrl") once the
\* index object is known to exist
rewriteSlot(shop, field, index, imageMapping) ==
  IF Has(shop, "id") /\ Has(index, shop.id)
  THEN IF Has(imageMapping, index[shop.id])
       THEN SetField(shop, field, imageMapping[index[shop.id]])
       ELSE shop
  ELSE shop

\* reading backupData.images.logos / .maps for a shop with an id raises a
\* TypeError when backupData.images or the index is missing
IndexMissing(bd, slot) == ~Has(bd, "images") \/ ~Has(bd.images, slot)

RECURSIVE rewriteFrom(_, _, _)
rewriteFrom(bd, imageMapping, i) ==
  IF i > Len(bd.shops) THEN [threw |-> FALSE, data |-> bd]
  ELSE LET shop == bd.shops[i]
       IN IF Has(shop, "id") /\ IndexMissing(bd, "logos")
          THEN [threw |-> TRUE, data |-> bd]
          ELSE LET shop1 == IF Has(shop, "id")
                            THEN rewriteSlot(shop, "logo", bd.images.logos, imageMapping)
                            ELSE shop
                   bd1 == [bd EXCEPT !.shops[i] = shop1]
               IN IF Has(shop, "id") /\ IndexMissing(bd, "maps")
                  THEN [threw |-> TRUE, data |-> bd1]
                  ELSE LET shop2 == IF Has(shop, "id")
                                    THEN rewriteSlot(shop1, "mapImageUrl",
                                                     bd.images.maps, imageMapping)
                                    ELSE shop1
                       IN rewriteFrom([bd EXCEPT !.shops[i] = shop2], imageMapping, i + 1)

\* updateShopImageUrls(backupData, imageMapping): the manifest afterwards and
\* whether a TypeError was raised (backupData.shops is not iterable, or an
\* index object is missing)
updateShopImageUrls(bd, imageMapping) ==
  IF ~Has(bd, "shops") THEN [threw |-> TRUE, data |-> bd]
  ELSE rewriteFrom(bd, imageMapping, 1)

\* the message of the TypeError raised by updateShopImageUrls
ManifestStructureError == Message("TypeError")

\* line 369
UpdateUrls ==
  /\ rpc = "rewrite"
  /\ LET r == updateShopImageUrls(rData, imageResults.imageMapping)
     IN /\ rData' = r.data
        /\ IF r.threw
           THEN /\ Throw(ManifestStructureError)
                /\ UNCHANGED iIdx
           ELSE /\ rpc' = "insert"
                /\ iIdx' = 1
                /\ UNCHANGED thrown
  /\ UNCHANGED <<db, nextId, fs, tamper, req, zip, eIdx, uQueue, imageResults, storeLog,
                 restoredCount, insertLog, result>>
  /\ UNCHANGED backupVars
  /\ UNCHANGED serviceVars

\* --------------------------------------------------- restoreShopsToDatabase
\* the record passed on with its id still in place
keepId(shop) == shop

\* const { id, ...shopData } = shop
stripId(shop) == Without(shop, "id")

\* DatabaseStorage.createShop: the inserted row; the id column takes its
\* default (a generated identity) when the values carry no id
createShop(insertShop, n) ==
  IF Has(insertShop, "id") THEN insertShop
  ELSE SetField(insertShop, "id", NewIds[n])

\* an iteration that leaves out a record the store already holds
RestoreShopDedup ==
  /\ rpc = "insert"
  /\ iIdx <= Len(rData.shops)
  /\ LET shopData == stripId(rData.shops[iIdx])
     IN \E o \in {"ok", "throw"} :
          /\ insertLog' = Append(insertLog, [record |-> shopData, outcome |-> o])
          /\ IF o = "ok"
             THEN /\ db' = IF \E j \in 1..Len(db) : stripId(db[j]) = shopData
                           THEN db ELSE Append(db, createShop(shopData, nextId))
                  /\ nextId' = nextId + 1
                  /\ restoredCount' = restoredCount + 1
             ELSE UNCHANGED <<db, nextId, restoredCount>>
  /\ iIdx' = iIdx + 1
  /\ UNCHANGED <<fs, tamper, req, rpc, zip, eIdx, rData, uQueue, imageResults, storeLog,
                 thrown, result>>
  /\ UNCHANGED backupVars
  /\ UNCHANGED serviceVars

\* one iteration of the loop of lines 580-589
RestoreShop ==
  /\ rpc = "insert"
  /\ iIdx <= Len(rData.shops)
  /\ LET shopData == stripId(rData.shops[iIdx])
     IN \E o \in {"ok", "throw"} :
          /\ insertLog' = Append(insertLog, [record |-> shopData, outcome |-> o])
          /\ IF o = "ok"
             THEN /\ db' = Append(db, createShop(shopData, nextId))
                  /\ nextId' = nextId + 1
                  /\ restoredCount' = restoredCount + 1
             ELSE UNCHANGED <<db, nextId, restoredCount>>
  /\ iIdx' = iIdx + 1
  /\ UNCHANGED <<fs, tamper, req, rpc, zip, eIdx, rData, uQueue, imageResults, storeLog,
                 thrown, result>>
  /\ UNCHANGED backupVars
  /\ UNCHANGED serviceVars

\* a return that reports the number of manifest records as restored
RestoreSucceedTotal ==
  /\ rpc = "insert"
  /\ iIdx > Len(rData.shops)
  /\ result' = [result EXCEPT
                  !.stats.shopsRestored = Len(rData.shops),
                  !.success = TRUE,
                  !.message = [text |-> "Successfully restored",
                               counts |-> <<Len(rData.shops), imageResults.logosUploaded,
                                            imageResults.mapsUploaded>>]]
  /\ rpc' = "finally"
  /\ UNCHANGED <<db, nextId, fs, tamper, req, zip, eIdx, rData, uQueue, imageResults,
                 storeLog, iIdx, restoredCount, insertLog, thrown>>
  /\ UNCHANGED backupVars
  /\ UNCHANGED serviceVars

\* the loop is exhausted: return, then lines 373-376
RestoreSucceed ==
  /\ rpc = "insert"
  /\ iIdx > Len(rData.shops)
  /\ result' = [result EXCEPT
                  !.stats.shopsRestored = restoredCount,
                  !.success = TRUE,
                  !.message = [text |-> "Successfully restored",
                               counts |-> <<restoredCount, imageResults.logosUploaded,
                                            imageResults.mapsUploaded>>]]
  /\ rpc' = "finally"
  /\ UNCHANGED <<db, nextId, fs, tamper, req, zip, eIdx, rData, uQueue, imageResults,
                 storeLog, iIdx, restoredCount, insertLog, thrown>>
  /\ UNCHANGED backupVars
  /\ UNCHANGED serviceVars

\* the catch of lines 378-381
RestoreCatch ==
  /\ rpc = "catch"
  /\ result' = [result EXCEPT
                  !.message = thrown,
                  !.stats.errors = Append(@, ErrorEntry(thrown.text, EmptyStr, ""))]
  /\ rpc' = "finally"
  /\ UNCHANGED <<db, nextId, fs, tamper, req, zip, eIdx, rData, uQueue, imageResults,
                 storeLog, iIdx, restoredCount, insertLog, thrown>>
  /\ UNCHANGED backupVars
  /\ UNCHANGED serviceVars

\* the finally of lines 382-386, then the return of line 388
RestoreFinally ==
  /\ rpc = "finally"
  /\ fs' = cleanupFile(cleanupDirectory(fs, extractDir), zipFilePath)
  /\ rpc' = "done"
  /\ UNCHANGED <<db, nextId, tamper, req, zip, eIdx, rData, uQueue, imageResults,
                 storeLog, iIdx, restoredCount, insertLog, thrown, result>>
  /\ UNCHANGED backupVars
  /\ UNCHANGED serviceVars


\* -------------------------------------------------------- a further restore
MaxRuns == 1

\* the restore route is called again once a restore has returned: the upload
\* is a new request and restoreFromZip starts from fresh locals
RestoreAgain ==
  /\ rpc = "done"
  /\ runs < MaxRuns
  /\ runs' = runs + 1
  /\ rpc' = "idle"
  /\ zip' = << >>
  /\ eIdx' = 0
  /\ rData' = InitialBackupData(<< >>)
  /\ uQueue' = << >>
  /\ imageResults' = InitialImageResults
  /\ storeLog' = << >>
  /\ iIdx' = 0
  /\ restoredCount' = 0
  /\ insertLog' = << >>
  /\ thrown' = NoMessage
  /\ result' = InitialResult
  /\ UNCHANGED <<db, nextId, fs, tamper, req, dataResp, statsResp, clock, calls, users,
                 areq>>
  /\ UNCHANGED backupVars

\* POST /api/admin/backup/restore once restoreFromZip has returned: res.json
\* for a success, res.status(400).json otherwise
RestoreStatus(r) == IF r.success THEN 200 ELSE 400

\* --------------------------------------------------------- createDataBackup
NoResponse == [status |-> 0, body |-> NoData]

\* the manifest of a data-only backup that is marked as a full one
DataBackupDataFull(shops) ==
  [metadata |-> [version |-> "1.0", totalShops |-> Len(shops), backupType |-> "full"],
   shops |-> shops,
   images |-> [logos |-> EmptyMap, maps |-> EmptyMap]]

\* lines 170-182
DataBackupData(shops) ==
  [metadata |-> [version |-> "1.0", totalShops |-> Len(shops), backupType |-> "data-only"],
   shops |-> shops,
   images |-> [logos |-> EmptyMap, maps |-> EmptyMap]]

\* createDataBackup: res.json(backupData), or the 500 of the catch when
\* storage.getShops fails
DataBackup ==
  /\ dataResp = NoResponse
  /\ \E o \in {"ok", "throw"} :
       dataResp' = IF o = "ok"
                   THEN [status |-> 200, body |-> Stringify(DataBackupData(db))]
                   ELSE [status |-> 500, body |-> [type |-> "error"]]
  /\ UNCHANGED <<db, nextId, fs, tamper, req, statsResp, clock, calls, runs, users, areq>>
  /\ UNCHANGED backupVars
  /\ UNCHANGED restoreVars

\* ----------------------------------------------------------- getBackupStats
NoStats == [returned |-> FALSE]

\* Math.round of a non-negative number given in tenths
RoundTenths(tenths) == (tenths + 5) \div 10

\* lines 316-331; the weights 0.1, 0.2 and 0.5 are counted in tenths
BackupStats(shops) ==
  LET imagesWithLogos == Cardinality({i \in 1..Len(shops) : HasLogoAsset(shops[i])})
      imagesWithMaps  == Cardinality({i \in 1..Len(shops) : HasMapAsset(shops[i])})
      estimatedSize == RoundTenths(Len(shops) + imagesWithLogos * 2 + imagesWithMaps * 5)
  IN [returned |-> TRUE,
      totalShops |-> Len(shops),
      imagesWithLogos |-> imagesWithLogos,
      imagesWithMaps |-> imagesWithMaps,
      estimatedSize |-> IF estimatedSize > 1
                        THEN [amount |-> estimatedSize, unit |-> "MB"]
                        ELSE [amount |-> estimatedSize * 1024, unit |-> "KB"]]

\* getBackupStats, or the 500 of the route when storage.getShops fails
GetBackupStats ==
  /\ statsResp = NoStats
  /\ \E o \in {"ok", "throw"} :
       statsResp' = IF o = "ok" THEN BackupStats(db)
                    ELSE [returned |-> TRUE, error |-> "Error getting backup statistics"]
  /\ UNCHANGED <<db, nextId, fs, tamper, req, dataResp, clock, calls, runs, users, areq>>
  /\ UNCHANGED backupVars
  /\ UNCHANGED restoreVars

\* ------------------------------------------- invocations running side by side
MaxCalls == 2
MaxClock == 2

CallIds == 1..MaxCalls

\* an invocation that has not started: no directory chosen, nothing read
IdleCall == [op |-> "none", pc |-> "idle", dir |-> << >>, got |-> [type |-> "none"]]

\* the file the upload middleware stored for invocation i (a random name)
CallZipPath(i) == Append(UploadsDir, <<"upload-", i>>)

\* the manifest inside the archive uploaded for invocation i
CallManifest(i) == InitialBackupData(<<ShopPool[i]>>)

\* the millisecond clock advances
Tick ==
  /\ clock < MaxClock
  /\ clock' = clock + 1
  /\ UNCHANGED <<db, nextId, fs, tamper, req, dataResp, statsResp, calls, runs, users, areq>>
  /\ UNCHANGED backupVars
  /\ UNCHANGED restoreVars

\* restoreFromZip, line 338: extractDir = `/tmp/restore-${Date.now()}`
CallRestore(i) ==
  /\ calls[i].pc = "idle"
  /\ calls' = [calls EXCEPT ![i] = [op |-> "restore", pc |-> "extract",
                                    dir |-> Append(TmpDir, <<"restore-", clock>>),
                                    got |-> IdleCall.got]]
  /\ fs' = WriteFile(fs, CallZipPath(i), [type |-> "zip"])
  /\ UNCHANGED <<db, nextId, tamper, req, dataResp, statsResp, clock, runs, users, areq>>
  /\ UNCHANGED backupVars
  /\ UNCHANGED restoreVars

\* extractZipFile of an archive that holds a manifest
CallExtract(i) ==
  /\ calls[i].pc = "extract"
  /\ fs' = WriteFile(Mkdir(fs, calls[i].dir), Append(calls[i].dir, ManifestName),
                     Stringify(CallManifest(i)))
  /\ calls' = [calls EXCEPT ![i].pc = "parse"]
  /\ UNCHANGED <<db, nextId, tamper, req, dataResp, statsResp, clock, runs, users, areq>>
  /\ UNCHANGED backupVars
  /\ UNCHANGED restoreVars

\* parseBackupData(path.join(extractDir, 'backup-data.json'))
CallParse(i) ==
  /\ calls[i].pc = "parse"
  /\ LET parsed == parseBackupData(fs, Append(calls[i].dir, ManifestName))
     IN calls' = [calls EXCEPT ![i].pc = "finally",
                               ![i].got = IF parsed.isNull THEN [type |-> "jsonnull"]
                                          ELSE Stringify(parsed.value)]
  /\ UNCHANGED <<db, nextId, fs, tamper, req, dataResp, statsResp, clock, runs, users, areq>>
  /\ UNCHANGED backupVars
  /\ UNCHANGED restoreVars

\* the finally of restoreFromZip
CallFinally(i) ==
  /\ calls[i].pc = "finally"
  /\ fs' = cleanupFile(cleanupDirectory(fs, calls[i].dir), CallZipPath(i))
  /\ calls' = [calls EXCEPT ![i].pc = "done"]
  /\ UNCHANGED <<db, nextId, tamper, req, dataResp, statsResp, clock, runs, users, areq>>
  /\ UNCHANGED backupVars
  /\ UNCHANGED restoreVars

\* createFullBackup, lines 72-80: backupDir = `/tmp/backup-${timestamp}`, the
\* timestamp being the clock to the millisecond
CallBackup(i) ==
  /\ calls[i].pc = "idle"
  /\ LET dir == Append(TmpDir, <<"backup-", clock>>)
     IN /\ calls' = [calls EXCEPT ![i] = [op |-> "backup", pc |-> "write", dir |-> dir,
                                          got |-> IdleCall.got]]
        /\ fs' = Mkdir(Mkdir(fs, LogosDirOf(dir)), MapsDirOf(dir))
  /\ UNCHANGED <<db, nextId, tamper, req, dataResp, statsResp, clock, runs, users, areq>>
  /\ UNCHANGED backupVars
  /\ UNCHANGED restoreVars

\* createFullBackup, lines 128-154, for a record store without assets: the
\* manifest is written and the staging directory is archived
CallBackupWrite(i) ==
  /\ calls[i].pc = "write"
  /\ LET dir == calls[i].dir
         written == WriteFile(WriteFile(fs, Append(dir, ManifestName),
                                        Stringify(InitialBackupData(db))),
                              Append(dir, ReadmeName), [type |-> "text"])
     IN /\ fs' = written
        /\ calls' = [calls EXCEPT ![i].pc = "done",
                                  ![i].got = [type |-> "zip",
                                              entries |-> ArchiveDirectory(written, dir)]]
  /\ UNCHANGED <<db, nextId, tamper, req, dataResp, statsResp, clock, runs, users, areq>>
  /\ UNCHANGED backupVars
  /\ UNCHANGED restoreVars

\* ------------------------------------------------------------ admin accounts
MaxRequests == 2

\* the rows the users table can hold before any request
UserRows == {[id |-> "u1", username |-> "ana"], [id |-> "u2", username |-> "bob"]}

\* a request that has not arrived: op is the route, session the userId of the
\* session, arg the username to create or the id to delete, status the
\* answer (0: none yet)
IdleRequest == [op |-> "none", pc |-> "idle", session |-> "", arg |-> "", status |-> 0]

\* POST /api/auth/create-admin, lines 102-107: getAllUsers, 403 when a user
\* exists (500 from the catch when the read fails)
CreateAdminList(i) ==
  /\ areq[i].pc = "idle"
  /\ \E name \in {"ana", "cy"}, o \in {"ok", "throw"} :
       areq' = [areq EXCEPT ![i] =
                  [op |-> "create", session |-> "", arg |-> name,
                   pc |-> IF o = "ok" /\ users = {} THEN "lookup" ELSE "done",
                   status |-> IF o = "throw" THEN 500
                              ELSE IF users # {} THEN 403 ELSE 0]]
  /\ UNCHANGED <<db, nextId, fs, tamper, req, dataResp, statsResp, clock, calls, runs,
                 users>>
  /\ UNCHANGED backupVars
  /\ UNCHANGED restoreVars

\* lines 109-118: the body is validated (400), the username looked up (409),
\* the password hashed
CreateAdminLookup(i) ==
  /\ areq[i].pc = "lookup"
  /\ \E o \in {"ok", "invalid", "throw"} :
       areq' = [areq EXCEPT
                  ![i].pc = IF o = "ok" /\ \A u \in users : u.username # areq[i].arg
                            THEN "insert" ELSE "done",
                  ![i].status = CASE o = "invalid" -> 400
                                  [] o = "throw" -> 500
                                  [] \E u \in users : u.username = areq[i].arg -> 409
                                  [] OTHER -> 0]
  /\ UNCHANGED <<db, nextId, fs, tamper, req, dataResp, statsResp, clock, calls, runs,
                 users>>
  /\ UNCHANGED backupVars
  /\ UNCHANGED restoreVars

\* lines 121-131: createUser inserts the row, which gets a generated id; the
\* insert fails when the store is unreachable or the username is taken
CreateAdminInsert(i) ==
  /\ areq[i].pc = "insert"
  /\ \E o \in (IF \E u \in users : u.username = areq[i].arg
              THEN {"throw"} ELSE {"ok", "throw"}) :
       /\ users' = IF o = "ok"
                   THEN users \cup {[id |-> NewIds[i], username |-> areq[i].arg]}
                   ELSE users
       /\ areq' = [areq EXCEPT ![i].pc = "done",
                               ![i].status = IF o = "ok" THEN 201 ELSE 500]
  /\ UNCHANGED <<db, nextId, fs, tamper, req, dataResp, statsResp, clock, calls, runs>>
  /\ UNCHANGED backupVars
  /\ UNCHANGED restoreVars

\* DELETE /api/admin/users/:id: requireAuth (auth.ts lines 143-161) reads the
\* session's user, then the route refuses the session's own id (lines 562-568)
DeleteAuth(i) ==
  /\ areq[i].pc = "idle"
  /\ \E who \in {"u1", "u2"}, id \in {"u1", "u2"} :
       areq' = [areq EXCEPT ![i] =
                  [op |-> "delete", session |-> who, arg |-> id,
                   pc |-> IF (\E u \in users : u.id = who) /\ who # id
                          THEN "list" ELSE "done",
                   status |-> IF \A u \in users : u.id # who THEN 401
                              ELSE IF who = id THEN 400 ELSE 0]]
  /\ UNCHANGED <<db, nextId, fs, tamper, req, dataResp, statsResp, clock, calls, runs,
                 users>>
  /\ UNCHANGED backupVars
  /\ UNCHANGED restoreVars

\* lines 571-574: getAllUsers, 400 when at most one user is left
DeleteList(i) ==
  /\ areq[i].pc = "list"
  /\ areq' = [areq EXCEPT
                ![i].pc = IF Cardinality(users) <= 1 THEN "done" ELSE "delete",
                ![i].status = IF Cardinality(users) <= 1 THEN 400 ELSE 0]
  /\ UNCHANGED <<db, nextId, fs, tamper, req, dataResp, statsResp, clock, calls, runs,
                 users>>
  /\ UNCHANGED backupVars
  /\ UNCHANGED restoreVars

\* lines 576-582: deleteUser removes the row with the id, 404 when there is none
DeleteUser(i) ==
  /\ areq[i].pc = "delete"
  /\ users' = {u \in users : u.id # areq[i].arg}
  /\ areq' = [areq EXCEPT
                ![i].pc = "done",
                ![i].status = IF \E u \in users : u.id = areq[i].arg THEN 204 ELSE 404]
  /\ UNCHANGED <<db, nextId, fs, tamper, req, dataResp, statsResp, clock, calls, runs>>
  /\ UNCHANGED backupVars
  /\ UNCHANGED restoreVars

\* ---------------------------------------------------------- specification
InitialFs == (TmpDir :> DirNode) @@ (UploadsDir :> DirNode)

\* no request other than a full backup and a restore has been made
ServiceIdle ==
  /\ req = EmptyRequest
  /\ dataResp = NoResponse
  /\ statsResp = NoStats
  /\ clock = 0
  /\ calls = [i \in CallIds |-> IdleCall]
  /\ runs = 0
  /\ areq = [i \in 1..MaxRequests |-> IdleRequest]

\* the backup / restore engine right after construction
EngineIdle ==
  /\ tamper = "none"
  /\ nextId = 1
  /\ fs = InitialFs
  /\ fetchLog = << >>
  /\ bpc = "idle"
  /\ bShops = << >>
  /\ bIdx = 0
  /\ backupData = InitialBackupData(<< >>)
  /\ resp = [headersSent |-> FALSE, status |-> 0, body |-> "none", lateWrites |-> 0,
            sink |-> << >>]
  /\ archive = << >>
  /\ rpc = "idle"
  /\ zip = << >>
  /\ eIdx = 0
  /\ rData = InitialBackupData(<< >>)
  /\ uQueue = << >>
  /\ imageResults = InitialImageResults
  /\ storeLog = << >>
  /\ iIdx = 0
  /\ restoredCount = 0
  /\ insertLog = << >>
  /\ thrown = NoMessage
  /\ result = InitialResult

Init ==
  /\ users = {}
  /\ db \in {RecordsOf(s) : s \in RecordSets}
  /\ ServiceIdle
  /\ EngineIdle

Next ==
  \/ BackupStart
  \/ BackupShop
  \/ BackupWrite
  \/ BackupZip
  \/ ZipStream
  \/ ClientUpload
  \/ ExtractOpen
  \/ ExtractEntry
  \/ ExtractEnd
  \/ ParseManifest
  \/ ListLogos
  \/ UploadLogo
  \/ LogosDone
  \/ ListMaps
  \/ UploadMap
  \/ MapsDone
  \/ UpdateUrls
  \/ RestoreShop
  \/ RestoreSucceed
  \/ RestoreCatch
  \/ RestoreFinally

Spec == Init /\ [][Next]_vars

\* ------------------------------------- the read-only operations on their own
MaxReportShops == 2

ReportRefs == {RefStored, RefIcon, FaStore, EmptyStr}

\* the record stores the read-only operations are applied to: up to
\* MaxReportShops rows, row i with the i-th identity and any two references
ReportRecordSets ==
  LET ids == <<"s1", "s2", "s3", "s4">>
      Rows(i) == {[id |-> ids[i], name |-> "A", logo |-> l, mapImageUrl |-> m] :
                    l, m \in ReportRefs}
  IN UNION {{s \in [1..n -> UNION {Rows(i) : i \in 1..n}] :
               \A i \in 1..n : s[i] \in Rows(i)} : n \in 0..MaxReportShops}

InitReports ==
  /\ users = {}
  /\ db \in ReportRecordSets
  /\ ServiceIdle
  /\ EngineIdle

NextReports ==
  \/ DataBackup
  \/ GetBackupStats

SpecReports == InitReports /\ [][NextReports]_vars

\* ------------------------------------ a full backup of one record on its own
\* one record with any two references
InitFetch ==
  /\ users = {}
  /\ db \in {<<[id |-> "s1", name |-> "A", logo |-> l, mapImageUrl |-> m]>> :
               l, m \in {RefStored, RefExternal, RefLocal, RefIcon, FaStore, EmptyStr,
                         RefData, RefHttpish}}
  /\ ServiceIdle
  /\ EngineIdle

NextFetch ==
  \/ BackupStart
  \/ BackupShop
  \/ BackupWrite
  \/ BackupZip
  \/ ZipStream

SpecFetch == InitFetch /\ [][NextFetch]_vars

\* ------------------------------------- one archive restored more than once
InitRepeat ==
  /\ users = {}
  /\ db \in {<<ShopB>>, <<ShopC>>}
  /\ ServiceIdle
  /\ EngineIdle

NextRepeat ==
  \/ Next
  \/ RestoreAgain

SpecRepeat == InitRepeat /\ [][NextRepeat]_vars

\* ------------------------------------------ account requests that overlap
InitAccounts ==
  /\ users \in SUBSET UserRows
  /\ db = << >>
  /\ ServiceIdle
  /\ EngineIdle

NextAccounts ==
  \/ \E i \in 1..MaxRequests : CreateAdminList(i)
  \/ \E i \in 1..MaxRequests : CreateAdminLookup(i)
  \/ \E i \in 1..MaxRequests : CreateAdminInsert(i)
  \/ \E i \in 1..MaxRequests : DeleteAuth(i)
  \/ \E i \in 1..MaxRequests : DeleteList(i)
  \/ \E i \in 1..MaxRequests : DeleteUser(i)

SpecAccounts == InitAccounts /\ [][NextAccounts]_vars

\* --------------------------------------- invocations that overlap in time
InitConcurrent ==
  /\ users = {}
  /\ db = <<ShopB>>
  /\ ServiceIdle
  /\ EngineIdle

NextConcurrent ==
  \/ Tick
  \/ \E i \in CallIds : CallRestore(i)
  \/ \E i \in CallIds : CallExtract(i)
  \/ \E i \in CallIds : CallParse(i)
  \/ \E i \in CallIds : CallFinally(i)
  \/ \E i \in CallIds : CallBackup(i)
  \/ \E i \in CallIds : CallBackupWrite(i)

SpecConcurrent == InitConcurrent /\ [][NextConcurrent]_vars

\* ================================================================ properties
ScratchGone == \A p \in DOMAIN fs : ~IsPrefix(extractDir, p)

ManifestIndexes(z) == {i \in 1..Len(z) : IsManifestEntry(z[i])}

\* the archive holds no manifest, or one that is not JSON text
NoParseableManifest(z) == \A i \in ManifestIndexes(z) : z[i].data.type = "text"

\* a manifest object that lacks the shops list or an asset index
Malformed(m) ==
  \/ ~Has(m, "shops")
  \/ ~Has(m, "images")
  \/ ~Has(m.images, "logos")
  \/ ~Has(m.images, "maps")

ManifestMalformedIn(z) ==
  \E i \in ManifestIndexes(z) : z[i].data.type = "json" /\ Malformed(z[i].data.value)

C2_MissingManifestRejected ==
  (rpc = "done" /\ eIdx >= 1 /\ NoParseableManifest(zip))
    => /\ ~result.success
       /\ result.message = InvalidBackupMessage
       /\ storeLog = << >>
       /\ insertLog = << >>
       /\ ScratchGone

\* C3: a restore whose manifest is JSON without the expected structure never
\* gets past manifest parsing: no upload is attempted, no record is inserted
\* and the run ends with success=false
C3_MalformedManifestRejectedAtParse ==
  ManifestMalformedIn(zip)
    => /\ rpc \notin {"listLogos", "uploadLogos", "listMaps", "uploadMaps",
                      "rewrite", "insert"}
       /\ storeLog = << >>
       /\ insertLog = << >>
       /\ (rpc = "done" => ~result.success)

\* C4: a restore of an opened archive ends with success=false only because
\* the manifest is missing or corrupt; no other failure is fatal
C4_OnlyManifestFatal ==
  (rpc = "done" /\ eIdx >= 1 /\ ~result.success)
    => thrown \in {InvalidBackupMessage, ManifestStructureError}

\* C5: whatever happens to an entry during extraction, the extraction goes on
\* with the next entry
C5_EntryProblemSkipped ==
  [][(rpc = "extract" /\ eIdx <= Len(zip)) => (rpc' = "extract" /\ eIdx' = eIdx + 1)]_vars

AssetFiles(kind) ==
  Readdir(fs, IF kind = "logo" THEN LogosDirOf(extractDir) ELSE MapsDirOf(extractDir))

AssetPath(kind, file) ==
  IF kind = "logo" THEN LogoArchivePath(file) ELSE MapArchivePath(file)

\* number of upload-target requests made for a file
Attempts(kind, file) ==
  Cardinality({i \in 1..Len(storeLog) :
                 storeLog[i] = <<"getObjectEntityUploadURL", kind, file>>})

ErrorTexts(kind) ==
  IF kind = "logo" THEN {"Error uploading logo", "Failed to upload logo"}
  ELSE {"Error uploading map", "Failed to upload map"}

\* number of entries of the outcome's errors list about a file
ErrorsAbout(kind, file) ==
  Cardinality({i \in 1..Len(result.stats.errors) :
                 /\ result.stats.errors[i].file = file
                 /\ result.stats.errors[i].text \in ErrorTexts(kind)})

\* C6: once the uploads are over every asset file of the scratch directory
\* has been attempted exactly once and the errors list holds exactly one
\* entry for each file whose upload failed and none for the others; a
\* restore that then succeeds has handed every manifest record, the owners
\* of failed assets included, to the record store, and the errors list holds
\* nothing but the upload failures
C6_UploadFailureIsolated ==
  /\ rpc \in {"rewrite", "insert"} =>
       \A kind \in {"logo", "map"} : \A file \in AssetFiles(kind) :
         /\ Attempts(kind, file) = 1
         /\ ErrorsAbout(kind, file) =
              IF Has(imageResults.imageMapping, AssetPath(kind, file)) THEN 0 ELSE 1
  /\ (rpc = "done" /\ result.success) =>
       /\ Len(insertLog) = Len(rData.shops)
       /\ \A i \in 1..Len(insertLog) :
            /\ \A k \in DOMAIN insertLog[i].record :
                 insertLog[i].record[k] = rData.shops[i][k]
            /\ insertLog[i].outcome = "ok" =>
                 \E j \in 1..Len(db) :
                   \A k \in DOMAIN insertLog[i].record :
                     db[j][k] = insertLog[i].record[k]
       /\ Len(result.stats.errors) = Len(storeLog) - Cardinality(DOMAIN imageResults.imageMapping)

\* exactly one asset file was in the archive, its upload failed, the errors
\* list has one entry and the record owning the asset was inserted
C6_Witness ==
  /\ rpc = "done"
  /\ result.success
  /\ Len(storeLog) = 1
  /\ Len(result.stats.errors) = 1
  /\ imageResults.imageMapping = EmptyMap
  /\ \E i \in 1..Len(insertLog) :
       /\ insertLog[i].outcome = "ok"
       /\ Has(rData.shops[i], "id")
       /\ \/ Has(rData.images.logos, rData.shops[i].id)
          \/ Has(rData.images.maps, rData.shops[i].id)


\* ------------------------------------------- updateShopImageUrls on its own
\* a signed upload URL for an object named name: /bucket/uploads/name
SignedUrl(name) == [pathname |-> <<EmptyStr, Seg("bucket"), Seg("uploads"), name>>]

RwLogoPath(id) == LogoArchivePath(<<id, "_logo">> \o ExtPng)
RwMapPath(id)  == MapArchivePath(<<id, "_map">> \o ExtJpg)

RwManifests ==
  {TamperManifest(t, [InitialBackupData(RecordsOf(s)) EXCEPT
                        !.images = [logos |-> [i \in L |-> RwLogoPath(i)],
                                    maps  |-> [i \in M |-> RwMapPath(i)]]]) :
     t \in {"none", "dropIds", "noImages", "noLogosIndex", "noShops"},
     s \in RecordSets,
     L \in SUBSET {"s1", "s3"},
     M \in SUBSET {"s1"}}

RwMappings ==
  {[q \in Q |-> extractObjectPathFromUrl(SignedUrl(<<"u">> \o q[3]))] :
     Q \in SUBSET {RwLogoPath("s1"), RwLogoPath("s3"), RwMapPath("s1")}}

\* updateShopImageUrls is about to be applied to a manifest and a mapping
InitRewrite ==
  /\ rData \in RwManifests
  /\ imageResults \in {[InitialImageResults EXCEPT !.imageMapping = m] : m \in RwMappings}
  /\ zip = <<[fileName |-> <<ManifestName>>, data |-> Stringify(rData)]>>
  /\ rpc = "rewrite"
  /\ db = << >>
  /\ users = {}
  /\ ServiceIdle
  /\ tamper = "none"
  /\ nextId = 1
  /\ fs = InitialFs
  /\ fetchLog = << >>
  /\ bpc = "idle"
  /\ bShops = << >>
  /\ bIdx = 0
  /\ backupData = InitialBackupData(<< >>)
  /\ resp = [headersSent |-> FALSE, status |-> 0, body |-> "none", lateWrites |-> 0,
            sink |-> << >>]
  /\ archive = << >>
  /\ eIdx = 0
  /\ uQueue = << >>
  /\ storeLog = << >>
  /\ iIdx = 0
  /\ restoredCount = 0
  /\ insertLog = << >>
  /\ thrown = NoMessage
  /\ result = InitialResult

NextRewrite == UpdateUrls

SpecRewrite == InitRewrite /\ [][NextRewrite]_vars

\* the manifest as the uploaded archive holds it
OriginalManifest == zip[CHOOSE i \in ManifestIndexes(zip) : TRUE].data.value

\* the slot of record o has an index entry whose path is in the mapping
HasNewReference(o, slot) ==
  /\ Has(o, "id")
  /\ Has(OriginalManifest, "images")
  /\ Has(OriginalManifest.images, slot)
  /\ Has(OriginalManifest.images[slot], o.id)
  /\ Has(imageResults.imageMapping, OriginalManifest.images[slot][o.id])

NewReference(o, slot) == imageResults.imageMapping[OriginalManifest.images[slot][o.id]]

\* C7: after the rewrite step every record's logo (mapImageUrl) is the new
\* reference when the logos (maps) index has an entry for the record whose
\* path is in the mapping, and the manifest's original value otherwise; no
\* other field of a record and nothing else of the manifest is changed
C7_RewriteExact ==
  rpc = "insert" =>
    /\ DOMAIN rData = DOMAIN OriginalManifest
    /\ \A key \in DOMAIN rData \ {"shops"} : rData[key] = OriginalManifest[key]
    /\ Len(rData.shops) = Len(OriginalManifest.shops)
    /\ \A i \in 1..Len(rData.shops) :
         LET o == OriginalManifest.shops[i]
             n == rData.shops[i]
         IN /\ DOMAIN n = DOMAIN o
            /\ \A k \in DOMAIN o :
                 n[k] = IF k = "logo" /\ HasNewReference(o, "logos")
                        THEN NewReference(o, "logos")
                        ELSE IF k = "mapImageUrl" /\ HasNewReference(o, "maps")
                        THEN NewReference(o, "maps")
                        ELSE o[k]

\* a record got a new logo while its map, indexed but absent from the
\* mapping, kept the original reference
C7_Witness ==
  /\ rpc = "insert"
  /\ \E i \in 1..Len(rData.shops) :
       LET o == OriginalManifest.shops[i]
       IN /\ HasNewReference(o, "logos")
          /\ rData.shops[i].logo # o.logo
          /\ Has(OriginalManifest.images.maps, o.id)
          /\ ~HasNewReference(o, "maps")
          /\ rData.shops[i].mapImageUrl = o.mapImageUrl
          /\ Truthy(o.mapImageUrl)

FailedInserts == {i \in 1..Len(insertLog) : insertLog[i].outcome = "throw"}

\* C8: in a restore that reaches the insert step every manifest record is
\* handed to the record store whatever happened to the earlier ones, and the
\* outcome's errors list holds an entry for every insertion that failed
C8_InsertFailuresRecorded ==
  (rpc = "done" /\ result.success) =>
    /\ Len(insertLog) = Len(rData.shops)
    /\ Len(result.stats.errors) >= Len(imageResults.errors) + Cardinality(FailedInserts)

\* every asset the backup tried to fetch was fetched and written
AllFetchesSucceeded ==
  \A i \in 1..Len(bShops) :
    /\ (HasLogoAsset(bShops[i]) /\ RefSource(bShops[i].logo) # "none")
         => Has(backupData.images.logos, bShops[i].id)
    /\ (HasMapAsset(bShops[i]) /\ RefSource(bShops[i].mapImageUrl) # "none")
         => Has(backupData.images.maps, bShops[i].id)

BackedUpAssets ==
  Cardinality(DOMAIN backupData.images.logos) + Cardinality(DOMAIN backupData.images.maps)

PutRequests == {i \in 1..Len(storeLog) : storeLog[i][1] = "PUT"}
TargetRequests == {i \in 1..Len(storeLog) : storeLog[i][1] = "getObjectEntityUploadURL"}

\* the collaborators failed nothing: every asset fetch of the backup
\* succeeded, the archive was uploaded as received and extracted in full, the
\* object store accepted every PUT it received and the record store every
\* insert
NothingFailedOutside ==
  /\ tamper = "none"
  /\ AllFetchesSucceeded
  /\ thrown = NoMessage
  /\ Cardinality(TargetRequests) = BackedUpAssets
  /\ Cardinality(PutRequests) = Cardinality(DOMAIN imageResults.imageMapping)
  /\ FailedInserts = {}

\* C9: when nothing fails outside, restoring the archive of a full backup of
\* R restores |R| records, and every record with a backed-up asset is
\* restored with a stored reference different from the one it had in R
C9_RoundTrip ==
  (rpc = "done" /\ NothingFailedOutside) =>
    /\ result.success
    /\ result.stats.shopsRestored = Len(bShops)
    /\ Len(db) = 2 * Len(bShops)
    /\ \A i \in 1..Len(bShops) :
         LET old == bShops[i]
             new == db[Len(bShops) + i]
         IN /\ Has(backupData.images.logos, old.id) =>
                 new.logo # old.logo /\ StartsWith(new.logo, ObjectsPrefix)
            /\ Has(backupData.images.maps, old.id) =>
                 new.mapImageUrl # old.mapImageUrl
                   /\ StartsWith(new.mapImageUrl, ObjectsPrefix)

ManifestIds == {rData.shops[i].id : i \in {j \in 1..Len(rData.shops) : Has(rData.shops[j], "id")}}

\* C10: every record handed to the record store's insert is the rewritten
\* manifest record without its id field, all other fields unchanged, and no
\* row created by the restore carries an id of the manifest
C10_IdStripped ==
  /\ \A i \in 1..Len(insertLog) :
       /\ ~Has(insertLog[i].record, "id")
       /\ DOMAIN insertLog[i].record = DOMAIN rData.shops[i] \ {"id"}
       /\ \A k \in DOMAIN insertLog[i].record : insertLog[i].record[k] = rData.shops[i][k]
  /\ \A j \in (Len(db) - restoredCount + 1)..Len(db) : db[j].id \notin ManifestIds

\* a manifest record that had an id has been inserted as a new row
C10_Witness ==
  /\ rpc = "done"
  /\ \E i \in 1..Len(insertLog) :
       /\ insertLog[i].outcome = "ok"
       /\ Has(rData.shops[i], "id")
  /\ restoredCount >= 1
  /\ db[Len(db)].id \notin ManifestIds

\* ------------------------------------------------------------ createDataBackup
DataManifest == dataResp.body.value

\* C11: whatever the record store holds, the manifest createDataBackup emits
\* has totalShops equal to the number of records, the records themselves as
\* its shops list, empty logos and maps indexes and backupType data-only, and
\* no asset was fetched or written to produce it
C11_DataBackupManifest ==
  dataResp.status = 200 =>
    /\ dataResp.body.type = "json"
    /\ DataManifest.metadata.totalShops = Len(db)
    /\ DataManifest.shops = db
    /\ DataManifest.images.logos = EmptyMap
    /\ DataManifest.images.maps = EmptyMap
    /\ DataManifest.metadata.backupType = "data-only"
    /\ fetchLog = << >>
    /\ fs = InitialFs

\* a data-only backup of two records, one of which has a stored logo
C11_Witness ==
  /\ dataResp.status = 200
  /\ Len(db) >= 2
  /\ \E i \in 1..Len(db) : StartsWith(db[i].logo, ObjectsPrefix)
  /\ DataManifest.metadata.totalShops = Len(db)

\* ------------------------------------------------------------ createFullBackup
\* the records the loop of createFullBackup has been through
Processed == 1..(IF bIdx - 1 < Len(bShops) THEN bIdx - 1 ELSE Len(bShops))

\* the asset of a record's slot was fetched
Fetched(id, slot) ==
  \E k \in 1..Len(fetchLog) :
    fetchLog[k].id = id /\ fetchLog[k].slot = slot /\ fetchLog[k].ok

\* the backup has read the records
BackupUnderWay == bpc \in {"shops", "zip", "stream"} \/ (bpc = "done" /\ bIdx > 0)

\* C12: once createFullBackup has read the records, whatever the asset
\* fetches answer and however many records there are (none included), the
\* manifest counts every record, the loop over the records is never left
\* with an error response, and the index holds an entry for a record's slot
\* exactly when that asset was fetched
C12_BuildNeverAbortsOnAssets ==
  BackupUnderWay =>
    /\ backupData.metadata.totalShops = Len(bShops)
    /\ backupData.shops = bShops
    /\ bpc \in {"shops", "zip"} => (db = bShops /\ ~resp.headersSent)
    /\ resp.status = 500 => bIdx > Len(bShops)
    /\ \A i \in Processed :
         /\ Has(backupData.images.logos, bShops[i].id) <=> Fetched(bShops[i].id, "logo")
         /\ Has(backupData.images.maps, bShops[i].id) <=> Fetched(bShops[i].id, "map")
    /\ \A id \in DOMAIN backupData.images.logos \cup DOMAIN backupData.images.maps :
         \E i \in Processed : bShops[i].id = id

\* two records went through the loop, a fetch failed, a symbolic logo was
\* skipped, and the build goes on to the archive with no asset
C12_Witness ==
  /\ bpc = "zip"
  /\ Len(bShops) = 2
  /\ backupData.metadata.totalShops = 2
  /\ backupData.images.logos = EmptyMap
  /\ backupData.images.maps = EmptyMap
  /\ \E k \in 1..Len(fetchLog) : ~fetchLog[k].ok
  /\ \E i \in 1..Len(bShops) : bShops[i].logo = FaStore

\* the record of the backup that has an id
ShopOf(id) == bShops[CHOOSE i \in 1..Len(bShops) : bShops[i].id = id]

\* an index entry of a slot names the file staged for that record and slot
MirrorsDisk(index, segment, suffix, field) ==
  /\ \A id \in DOMAIN index :
       LET p == index[id]
       IN /\ Len(p) = 3
          /\ p[1] = ImagesSeg
          /\ p[2] = segment
          /\ StartsWith(p[3], <<id, suffix>>)
          /\ IsFile(fs, PathJoin(backupDir, p))
          /\ fs[PathJoin(backupDir, p)].data = [type |-> "bytes", of |-> ShopOf(id)[field]]
  /\ \A name \in Readdir(fs, Append(Append(backupDir, ImagesSeg), segment)) :
       Cardinality({id \in DOMAIN index : index[id] = <<ImagesSeg, segment, name>>}) = 1

IsStoredRef(s)   == StartsWith(s, ObjectsPrefix)
IsExternalRef(s) == ~IsStoredRef(s) /\ BeginsWithScheme(s)
IsLocalRef(s)    == StartsWith(s, SlashPrefix) /\ ~IsStoredRef(s) /\ ~IsExternalRef(s)
IsSymbolicRef(s) == ~IsStoredRef(s) /\ ~IsExternalRef(s) /\ ~IsLocalRef(s)

\* the source each shape is to be read from
ClassSource(s) ==
  CASE IsStoredRef(s)   -> "store"
    [] IsExternalRef(s) -> "http"
    [] IsLocalRef(s)    -> "disk"
    [] OTHER            -> "none"

\* files staged for a record's slot
StagedFor(dir, id, suffix) ==
  {name \in Readdir(fs, dir) : StartsWith(name, <<id, suffix>>)}

\* C14: a symbolic reference is never read from the network or the disk; in
\* a full backup it gets no staged file and no index entry, so that records
\* with symbolic references only leave both asset directories empty; and the
\* record a restore hands to the record store carries it unchanged
C14_SymbolicUntouched ==
  /\ \A k \in 1..Len(fetchLog) : ~IsSymbolicRef(fetchLog[k].ref)
  /\ BackupUnderWay =>
       /\ \A i \in Processed :
            /\ IsSymbolicRef(bShops[i].logo) =>
                 /\ ~Has(backupData.images.logos, bShops[i].id)
                 /\ StagedFor(LogosDirOf(backupDir), bShops[i].id, "_logo") = {}
            /\ IsSymbolicRef(bShops[i].mapImageUrl) =>
                 /\ ~Has(backupData.images.maps, bShops[i].id)
                 /\ StagedFor(MapsDirOf(backupDir), bShops[i].id, "_map") = {}
       /\ (\A i \in 1..Len(bShops) :
             IsSymbolicRef(bShops[i].logo) /\ IsSymbolicRef(bShops[i].mapImageUrl))
            => /\ Readdir(fs, LogosDirOf(backupDir)) = {}
               /\ Readdir(fs, MapsDirOf(backupDir)) = {}
  /\ \A i \in 1..Len(insertLog) :
       /\ IsSymbolicRef(bShops[i].logo) => insertLog[i].record.logo = bShops[i].logo
       /\ IsSymbolicRef(bShops[i].mapImageUrl) =>
            insertLog[i].record.mapImageUrl = bShops[i].mapImageUrl

\* a record with an icon in its map slot went through a backup that staged
\* nothing for the slot and was inserted by the restore with the icon
C14_Witness ==
  /\ rpc = "done"
  /\ \E i \in 1..Len(insertLog) :
       /\ insertLog[i].outcome = "ok"
       /\ bShops[i].mapImageUrl = RefIcon
       /\ insertLog[i].record.mapImageUrl = RefIcon
       /\ ~Has(backupData.images.maps, bShops[i].id)
       /\ Has(backupData.images.logos, bShops[i].id)

\* the source downloadImage went to for a record's slot, "none" when it
\* went to none
ReadSource(id, slot) ==
  LET hits == {k \in 1..Len(fetchLog) : fetchLog[k].id = id /\ fetchLog[k].slot = slot}
  IN IF hits = {} THEN "none" ELSE fetchLog[CHOOSE k \in hits : TRUE].source

\* C15: for every reference string of a record's slot, the source the
\* backup reads is the one of the reference's shape: the store's read path
\* for a stored reference, a network GET for a reference that begins with a
\* URL scheme, the static-assets directory for a local one, none otherwise
C15_ClassificationAgrees ==
  \A i \in Processed :
    /\ Truthy(bShops[i].logo) =>
         ReadSource(bShops[i].id, "logo") = ClassSource(bShops[i].logo)
    /\ Truthy(bShops[i].mapImageUrl) =>
         ReadSource(bShops[i].id, "map") = ClassSource(bShops[i].mapImageUrl)

\* ------------------------------------------------------------- getBackupStats
NonSymbolicLogos == {i \in 1..Len(db) : ~IsSymbolicRef(db[i].logo)}
NonSymbolicMaps  == {i \in 1..Len(db) : ~IsSymbolicRef(db[i].mapImageUrl)}

\* C16: the statistics count as logo (map) assets exactly the records whose
\* logo (map) reference is stored, external or local, no asset is fetched to
\* compute them, and the size estimate is given in MB above one megabyte and
\* in KB otherwise
C16_StatsCountNonSymbolic ==
  (statsResp.returned /\ Has(statsResp, "totalShops")) =>
    /\ statsResp.totalShops = Len(db)
    /\ statsResp.imagesWithLogos = Cardinality(NonSymbolicLogos)
    /\ statsResp.imagesWithMaps = Cardinality(NonSymbolicMaps)
    /\ statsResp.estimatedSize.unit \in {"KB", "MB"}
    /\ fetchLog = << >>
    /\ fs = InitialFs
\* ------------------------------------------------------- scratch directories
InProgress(c) == c.pc \notin {"idle", "done"}

\* C17: two invocations that are in progress at the same time never have
\* the same scratch directory, and a restore reads from its scratch
\* directory the manifest of its own archive
C17_ScratchDirsPrivate ==
  /\ \A i, j \in CallIds :
       (i # j /\ InProgress(calls[i]) /\ InProgress(calls[j]))
         => calls[i].dir # calls[j].dir
  /\ \A i \in CallIds :
       (calls[i].op = "restore" /\ calls[i].got # IdleCall.got)
         => calls[i].got = Stringify(CallManifest(i))

StagingGone == \A p \in DOMAIN fs : ~IsPrefix(backupDir, p)

\* C18: once createFullBackup has finished, with the archive streamed or
\* with an error, nothing of its staging directory is left on the server
C18_BackupEphemeral ==
  bpc = "done" => StagingGone

\* ---------------------------------------------------------- the upload gate
\* a request the restore must not be entered for
Refused(r) ==
  \/ ~r.hasFile
  \/ r.mimetype \notin {"application/zip", "application/x-zip-compressed"}
  \/ r.size > 100 * 1024 * 1024

\* C19: for a request without a file, with a file that is not declared as a
\* ZIP type or with a file above 100 MiB, restoreFromZip is never entered:
\* nothing is extracted, no upload target is requested, no record inserted
C19_OnlyAcceptedUploadsRestored ==
  Refused(req) =>
    /\ rpc \in {"idle", "rejected"}
    /\ zip = << >>
    /\ eIdx = 0
    /\ ScratchGone
    /\ ~Exists(fs, zipFilePath)
    /\ storeLog = << >>
    /\ insertLog = << >>
    /\ restoredCount = 0
    /\ result = InitialResult

\* an archive above the size limit was sent and turned away
C19_Witness ==
  /\ rpc = "rejected"
  /\ req.hasFile
  /\ req.mimetype = "application/zip"
  /\ req.size > 100 * 1024 * 1024
  /\ archive # << >>

\* ------------------------------------------------------------ missing assets
\* the archive holds a manifest that parses and has the expected structure
ManifestIntact(z) ==
  /\ ManifestIndexes(z) # {}
  /\ \A i \in ManifestIndexes(z) : z[i].data.type = "json" /\ ~Malformed(z[i].data.value)

\* the paths the manifest's index names for which the archive holds no file
MissingAssets(z) ==
  LET m == z[CHOOSE i \in ManifestIndexes(z) : TRUE].data.value
      named == {m.images.logos[id] : id \in DOMAIN m.images.logos}
                 \cup {m.images.maps[id] : id \in DOMAIN m.images.maps}
  IN {q \in named : \A k \in 1..Len(z) : z[k].fileName # q}

\* the restore has extracted every entry and read the manifest (a manifest
\* that indexes assets lists records)
ManifestRead == eIdx > Len(zip) /\ rData.shops # << >>

\* C20: a restore that extracted an archive and read its intact manifest,
\* which names asset paths the archive has no file for, ends with
\* success=true, has handed every record to the record store, and lists an
\* error for each missing asset
C20_MissingAssetReported ==
  (rpc = "done" /\ ManifestIntact(zip) /\ MissingAssets(zip) # {} /\ ManifestRead)
    => /\ result.success
       /\ Len(insertLog) = Len(rData.shops)
       /\ \A q \in MissingAssets(zip) :
            \E k \in 1..Len(result.stats.errors) : result.stats.errors[k].file = q[3]

\* ------------------------------------------------------- the response sink
\* a piece of the archive has been written to the response
ArchiveBytes == \E k \in 1..Len(resp.sink) : resp.sink[k] = "archive"

\* every asset read the record's slots call for has been answered
FetchesJoined ==
  \A i \in 1..Len(bShops) :
    /\ (HasLogoAsset(bShops[i]) /\ IssuesRead(bShops[i].logo)) =>
         \E k \in 1..Len(fetchLog) :
           fetchLog[k].id = bShops[i].id /\ fetchLog[k].slot = "logo"
    /\ (HasMapAsset(bShops[i]) /\ IssuesRead(bShops[i].mapImageUrl)) =>
         \E k \in 1..Len(fetchLog) :
           fetchLog[k].id = bShops[i].id /\ fetchLog[k].slot = "map"

\* C21: in createFullBackup nothing is written to the response while the
\* records are read and their assets fetched; when a piece of the archive is
\* in the response every record has been processed, every asset read has been
\* answered, the manifest and the README are on disk, and nobody but the
\* archive has written to the response
C21_SingleWriter ==
  /\ bpc \in {"idle", "shops", "zip"} => resp.sink = << >>
  /\ ArchiveBytes =>
       /\ bpc \in {"stream", "done"}
       /\ bIdx > Len(bShops)
       /\ FetchesJoined
       /\ IsFile(fs, Append(backupDir, ManifestName))
       /\ fs[Append(backupDir, ManifestName)].data = Stringify(backupData)
       /\ IsFile(fs, Append(backupDir, ReadmeName))
       /\ \A k \in 1..Len(resp.sink) : resp.sink[k] = "archive"

\* an archive was streamed to its end after two records with four asset
\* reads, one of which failed
C21_Witness ==
  /\ bpc = "done"
  /\ resp.body = "archive"
  /\ Len(resp.sink) = 2
  /\ Len(bShops) = 2
  /\ Len(fetchLog) >= 3
  /\ \E k \in 1..Len(fetchLog) : ~fetchLog[k].ok

\* C22: when the archive stream of a full backup fails, a 500 response is
\* produced only if the headers have not been sent; once they have been sent
\* no second response is attempted and the stream is left truncated
C22_NoSecondResponse ==
  /\ resp.lateWrites = 0
  /\ resp.status = 500 => ~ArchiveBytes

\* ------------------------------------------------------------ extractZipFile
\* what exists below the scratch extraction directory
Extracted == {p \in DOMAIN fs : IsPrefix(extractDir, p) /\ p # extractDir}

EntryPath(k) == PathJoin(extractDir, zip[k].fileName)

\* C23: extractZipFile handles the entries one at a time and in order: while
\* entry k is awaited the directory of every earlier directory entry exists
\* and no file of a later entry does; and whatever exists below the scratch
\* directory lies in a directory that exists, whether or not the archive has
\* directory entries and wherever they come
C23_OneEntryAtATime ==
  /\ \A p \in Extracted : IsDir(fs, DirName(p))
  /\ rpc = "extract" =>
       /\ \A k \in 1..(eIdx - 1) :
            IsDirectoryEntry(zip[k]) => IsDir(fs, EntryPath(k))
       /\ \A k \in (eIdx + 1)..Len(zip) :
            ~IsDirectoryEntry(zip[k]) => ~Exists(fs, EntryPath(k))

\* an archive without directory entries was extracted in full, an asset
\* file two directories deep included
C23_Witness ==
  /\ rpc = "parse"
  /\ tamper = "dropDirEntries"
  /\ \A k \in 1..Len(zip) : ~IsDirectoryEntry(zip[k])
  /\ \E p \in Extracted : Len(p) = Len(extractDir) + 3 /\ IsFile(fs, p)

\* ------------------------------------------------------------- file extension
\* the extension of the image type a content type names, EmptyStr when it
\* names none
ContentExtension(ct) ==
  CASE CtIncludes(ct, Png) -> ExtPng
    [] CtIncludes(ct, Gif) -> ExtGif
    [] CtIncludes(ct, Webp) -> ExtWebp
    [] CtIncludes(ct, <<"j", "p", "e", "g">>) -> ExtJpg
    [] OTHER -> EmptyStr

\* the extension of the image type found in a reference string, EmptyStr
\* when none is found
ReferenceExtension(ref) ==
  CASE Includes(ref, ExtPng) -> ExtPng
    [] Includes(ref, ExtGif) -> ExtGif
    [] Includes(ref, ExtWebp) -> ExtWebp
    [] OTHER -> EmptyStr

\* the extension a fetched asset is to be stored with
ExpectedExtension(entry) ==
  IF IsLocalRef(entry.ref)
  THEN (IF ExtName(entry.ref) # EmptyStr THEN ToLowerCase(ExtName(entry.ref)) ELSE ExtJpg)
  ELSE IF ContentExtension(entry.ct) # EmptyStr THEN ContentExtension(entry.ct)
  ELSE IF ReferenceExtension(entry.ref) # EmptyStr THEN ReferenceExtension(entry.ref)
  ELSE ExtJpg

\* the name of the file the index records for a fetched asset
StagedName(entry) ==
  IF entry.slot = "logo" THEN backupData.images.logos[entry.id][3]
  ELSE backupData.images.maps[entry.id][3]

\* C24: the file a fetched asset is staged as carries the extension of the
\* image type the response content type names when it names one, otherwise
\* the one found in the reference string, otherwise .jpg; for a local
\* reference its own suffix when it has one, otherwise .jpg
C24_ExtensionChosen ==
  \A k \in 1..Len(fetchLog) :
    (fetchLog[k].ok /\ bIdx > 1) =>
      StagedName(fetchLog[k]) =
        <<fetchLog[k].id, IF fetchLog[k].slot = "logo" THEN "_logo" ELSE "_map">>
          \o ExpectedExtension(fetchLog[k])

\* ---------------------------------------------------- uploadImagesFromBackup
\* entries of uploadImagesFromBackup's own errors list about files of a group
GroupErrors(kind) ==
  {i \in 1..Len(imageResults.errors) : imageResults.errors[i].text \in ErrorTexts(kind)}

\* upload-target requests made for a group
GroupAttempts(kind) ==
  {i \in 1..Len(storeLog) :
     storeLog[i][1] = "getObjectEntityUploadURL" /\ storeLog[i][2] = kind}

\* every file of the group was attempted once, nothing else was, and the
\* count is the number of files whose upload did not fail
GroupAccounted(kind, count) ==
  /\ \A file \in AssetFiles(kind) : Attempts(kind, file) = 1
  /\ Cardinality(GroupAttempts(kind)) = Cardinality(AssetFiles(kind))
  /\ count = Cardinality(AssetFiles(kind)) - Cardinality(GroupErrors(kind))

\* C25: once the logo loop is over each file under images/logos has been
\* attempted exactly once and logosUploaded is the number of them that were
\* uploaded; once the map loop is over the same holds of images/maps and
\* mapsUploaded, whatever happened to the logos, the logo count is what it
\* was, and restoreFromZip reports the two counts separately
C25_GroupsIndependent ==
  /\ rpc \in {"listMaps", "uploadMaps", "rewrite", "insert"} =>
       GroupAccounted("logo", imageResults.logosUploaded)
  /\ rpc \in {"listLogos", "uploadLogos", "listMaps"} =>
       /\ GroupAttempts("map") = {}
       /\ imageResults.mapsUploaded = 0
  /\ rpc \in {"rewrite", "insert"} =>
       /\ GroupAccounted("map", imageResults.mapsUploaded)
       /\ result.stats.logosRestored = imageResults.logosUploaded
       /\ result.stats.mapsRestored = imageResults.mapsUploaded

\* every logo upload failed and the maps were attempted all the same
C25_Witness ==
  /\ rpc = "rewrite"
  /\ AssetFiles("logo") # {}
  /\ Cardinality(GroupErrors("logo")) = Cardinality(AssetFiles("logo"))
  /\ AssetFiles("map") # {}
  /\ Cardinality(GroupAttempts("map")) = Cardinality(AssetFiles("map"))

\* ------------------------------------------------------ the restore's outcome
\* C26: restoreFromZip always gets to return its RestoreResult: it never
\* raises and is never left waiting; the result has success=true and the
\* three counts, or success=false and an errors list whose last entry is the
\* fatal cause; and the restore route answers 200 exactly for a success
C26_StructuredOutcome ==
  /\ rpc # "crashed"
  /\ rpc = "done" =>
       /\ result.success =>
            /\ result.stats.shopsRestored = restoredCount
            /\ result.stats.logosRestored = imageResults.logosUploaded
            /\ result.stats.mapsRestored = imageResults.mapsUploaded
       /\ ~result.success =>
            /\ thrown # NoMessage
            /\ result.message = thrown
            /\ result.stats.errors # << >>
            /\ result.stats.errors[Len(result.stats.errors)].text = thrown.text
       /\ (RestoreStatus(result) = 200) <=> result.success

\* ------------------------------------------------------------ admin accounts
\* the users created through the create-admin route
CreatedByRoute == {u \in users : u \notin UserRows}

\* C29: however create-admin requests interleave, at most one user is ever
\* created through the route, a user is created only into an empty store,
\* and a request that finds a user in the store is answered 403
C29_SingleInitialAdmin ==
  /\ Cardinality(CreatedByRoute) <= 1
  /\ \A i \in 1..MaxRequests :
       (areq[i].op = "create" /\ areq[i].status = 201) =>
         users \cap UserRows = {}
  /\ \A i \in 1..MaxRequests :
       (areq[i].op = "create" /\ areq[i].status = 403) => users # {}

\* C30: however delete-user requests of authenticated admins interleave, no
\* request deletes the account of its own session and a store that held a
\* user still holds one
C30_AdminRemains ==
  /\ \A i \in 1..MaxRequests :
       (areq[i].op = "delete" /\ areq[i].status = 204) => areq[i].session # areq[i].arg
  /\ (\E i \in 1..MaxRequests : areq[i].op = "delete" /\ areq[i].status = 204)
       => users # {}

\* ------------------------------------------------------------ record store
\* the inserts of the current restore that succeeded, in order
OkInserts ==
  LET IsOk(e) == e.outcome = "ok" IN SelectSeq(insertLog, IsOk)

\* rows of the store that are a record but for the identity
Copies(shop) == Cardinality({j \in 1..Len(db) : stripId(db[j]) = stripId(shop)})

\* once a backup has read the store: the rows it read are where they were,
\* the store holds one further row for each insert that has succeeded so far,
\* the rows of the current restore are its successfully inserted manifest
\* records in order with identities of their own, and when every insert of n
\* restores of the archive has succeeded the store holds n further copies of
\* each record
AddedRowsAccounted ==
  bIdx > 0 =>
    /\ Len(db) = Len(bShops) + nextId - 1
    /\ SubSeq(db, 1, Len(bShops)) = bShops
    /\ Len(OkInserts) = restoredCount
    /\ \A j \in 1..restoredCount :
         LET row == db[Len(db) - restoredCount + j]
         IN /\ stripId(row) = OkInserts[j].record
            /\ \A i \in 1..Len(db) : db[i].id = row.id => i = Len(db) - restoredCount + j
    /\ (rpc = "done" /\ nextId - 1 = (runs + 1) * Len(bShops)) =>
         \A i \in 1..Len(bShops) : Copies(bShops[i]) = runs + 2

\* C27: a restore only adds records: no step removes or changes a row the
\* store holds, at any point the rows added are exactly the manifest records
\* inserted successfully so far, and n restores of one archive add n copies
\* of each record
C27_RestoreOnlyAdds ==
  /\ []AddedRowsAccounted
  /\ [][Len(db') >= Len(db) /\ SubSeq(db', 1, Len(db)) = db]_vars

\* the archive of one record was restored twice, every insert succeeded, and
\* the store holds the record three times
C27_Witness ==
  /\ rpc = "done"
  /\ runs = 1
  /\ Len(bShops) = 1
  /\ nextId = 3
  /\ Len(db) = 3
  /\ Copies(bShops[1]) = 3
  /\ db[2].id # db[3].id

\* C28: while restoreShopsToDatabase runs the records handed to the insert
\* are the manifest records up to the current one, each once and in manifest
\* order, and restoredCount is the number of inserts that succeeded; in the
\* result of a restore that got through, shopsRestored is that number, and
\* with the number of failed inserts it adds up to the number of manifest
\* records
C28_InsertAccounting ==
  /\ rpc = "insert" =>
       /\ Len(insertLog) = iIdx - 1
       /\ Len(insertLog) <= Len(rData.shops)
  /\ rpc \in {"insert", "finally", "done"} =>
       /\ \A i \in 1..Len(insertLog) : insertLog[i].record = stripId(rData.shops[i])
       /\ restoredCount = Len(OkInserts)
  /\ (rpc = "done" /\ result.success) =>
       /\ Len(insertLog) = Len(rData.shops)
       /\ result.stats.shopsRestored = Len(OkInserts)
       /\ result.stats.shopsRestored + Cardinality(FailedInserts) = Len(rData.shops)
       /\ result.stats.shopsRestored <= Len(rData.shops)
       /\ result.message.counts[1] = result.stats.shopsRestored

\* a restore of two records got through with the first insert failed and
\* the second succeeded
C28_Witness ==
  /\ rpc = "done"
  /\ result.success
  /\ Len(rData.shops) = 2
  /\ insertLog[1].outcome = "throw"
  /\ insertLog[2].outcome = "ok"
  /\ result.stats.shopsRestored = 1

====
